---- MODULE Spec2Model ----
(***************************************************************************)
(* Model of ruvvector-service: the decision-event feed                     *)
(* (GET /events/decisions, listDecisionEventsHandler) over the decisions   *)
(* and approvals tables, a consumer that follows next_cursor, and the two  *)
(* writers of learning events (POST /learning/learn, createApproval-       *)
(* LearningHandler; POST /learning/assimilate, createFeedbackAssimilation- *)
(* Handler) over the learning_events table. The pure functions of the      *)
(* handlers are operators; the specifications that call one of them on     *)
(* bounded inputs keep the call in `call` and its result in `ret`.         *)
(*                                                                         *)
(* Strings are sequences of UTF-16 code units (naturals), so that split,   *)
(* join, parseInt and string comparison are computed, not assumed.         *)
(* Timestamps are JavaScript Date values: integer milliseconds.            *)
(***************************************************************************)
EXTENDS Integers, Sequences, FiniteSets, TLC

VARIABLES
    decisions,   \* table decisions: set of [id, ts]
    approvals,   \* table approvals: set of [id, decision_id, approved, ts]
    pc,          \* handler position: "idle", or "approvals" (suspended before the approvals query)
    req,         \* req.query of the request in flight: [types, after, limit]
    events,      \* the handler's local array `events`
    resp,        \* the last response sent: [status, events, next_cursor]
    poll,        \* the polling consumer's fixed parameters: [types, limit]
    cursor,      \* the last non-null next_cursor the consumer received (NULL at first)
    pages,       \* the non-empty pages the consumer received, in order
    calls,       \* number of responses the consumer received
    clock,       \* database clock of the append specification (ms)
    seen,        \* the database clock when the last request arrived
    queries,     \* outcome of the two source queries of the last request: [decisions, approvals]
    learning_events, \* table learning_events: set of [id, inputs_hash, decision_type, source_type, created_at]
    handlers,    \* the write requests in flight: set of [n, pc, endpoint, body, at, inputs_hash, id, found]
    replies,     \* the responses the write endpoints have sent, in order
    now,         \* wall clock read by new Date() (ms)
    call,        \* a call of one of the pure functions: [f, args, done]
    ret          \* the value the call returned (once call.done)

\* The state of the write endpoints.
writeVars == <<learning_events, handlers, replies, now>>

\* A call of a pure function and its result.
callVars == <<call, ret>>

vars == <<decisions, approvals, pc, req, events, resp, poll, cursor, pages, calls, clock, seen,
          queries, learning_events, handlers, replies, now, call, ret>>

----------------------------------------------------------------------------
(* Bounds *)

\* Largest created_at (ms) of a row in the specifications with coinciding timestamps.
TsMax == 2

\* Number of timestamps of the specification with pairwise distinct timestamps.
DistinctTsMax == 5

\* Largest page size the polling consumer asks for.
PageMax == 2

\* Number of write requests that can be in flight at the same time.
InFlightMax == 2

\* Number of write requests of a behaviour with concurrent requests.
ReqMax == 2

\* Number of write requests of a behaviour with one request at a time.
SeqMax == 3

\* Latest wall-clock time (ms) of a behaviour of the write endpoints.
NowMax == 1

----------------------------------------------------------------------------
(* Strings *)

\* null / undefined: a value no string equals (no code unit is negative).
NULL == <<-1>>

COLON == <<58>>
COMMA == <<44>>

\* "plan_created", "plan_approved", "plan_rejected", "plan_deferred"
PLAN_CREATED  == <<112,108,97,110,95,99,114,101,97,116,101,100>>
PLAN_APPROVED == <<112,108,97,110,95,97,112,112,114,111,118,101,100>>
PLAN_REJECTED == <<112,108,97,110,95,114,101,106,101,99,116,101,100>>
PLAN_DEFERRED == <<112,108,97,110,95,100,101,102,101,114,114,101,100>>

\* "foo", "garbage"
FOO     == <<102,111,111>>
GARBAGE == <<103,97,114,98,97,103,101>>

Min(a, b) == IF a <= b THEN a ELSE b
Max(a, b) == IF a >= b THEN a ELSE b

\* a < b for strings, by code unit. String.prototype.localeCompare and the
\* database's text comparison agree with it on the strings used here
\* (lower-case letters and digits, compared strings of equal shape).
StrLess(a, b) ==
    \E i \in 1..(Min(Len(a), Len(b)) + 1) :
        /\ \A j \in 1..(i - 1) : a[j] = b[j]
        /\ \/ i = Len(a) + 1 /\ i <= Len(b)
           \/ i <= Len(a) /\ i <= Len(b) /\ a[i] < b[i]

\* a.localeCompare(b): negative, zero or positive.
LocaleCompare(a, b) == IF a = b THEN 0 ELSE IF StrLess(a, b) THEN -1 ELSE 1

\* Index of the first occurrence of code unit c in s, 0 when there is none.
IndexOf(s, c) ==
    IF \E i \in 1..Len(s) : s[i] = c
    THEN CHOOSE i \in 1..Len(s) : s[i] = c /\ \A j \in 1..(i - 1) : s[j] # c
    ELSE 0

\* s.split(sep) for a one-unit separator.
RECURSIVE Split(_, _)
Split(s, c) ==
    LET i == IndexOf(s, c)
    IN  IF i = 0 THEN <<s>>
        ELSE <<SubSeq(s, 1, i - 1)>> \o Split(SubSeq(s, i + 1, Len(s)), c)

\* parts.join(sep)
RECURSIVE Join(_, _)
Join(parts, sep) ==
    IF Len(parts) = 0 THEN <<>>
    ELSE IF Len(parts) = 1 THEN parts[1]
    ELSE parts[1] \o sep \o Join(Tail(parts), sep)

IsDigit(c) == c >= 48 /\ c <= 57
IsSpace(c) == c = 32 \/ c = 9 \/ c = 10 \/ c = 13

\* Decimal digits of a natural number, as Number.prototype.toString prints them.
RECURSIVE ToDigits(_)
ToDigits(n) ==
    IF n < 10 THEN <<48 + n>> ELSE ToDigits(n \div 10) \o <<48 + (n % 10)>>

\* `${n}` for an integer.
NumToString(n) == IF n < 0 THEN <<45>> \o ToDigits(-n) ELSE ToDigits(n)

\* s.trim()
RECURSIVE TrimStart(_)
TrimStart(s) ==
    IF Len(s) > 0 /\ IsSpace(s[1]) THEN TrimStart(Tail(s)) ELSE s

RECURSIVE TrimEnd(_)
TrimEnd(s) ==
    IF Len(s) > 0 /\ IsSpace(s[Len(s)]) THEN TrimEnd(SubSeq(s, 1, Len(s) - 1)) ELSE s

Trim(s) == TrimEnd(TrimStart(s))

\* s.toLowerCase() on ASCII.
ToLowerCase(s) == [i \in 1..Len(s) |-> IF s[i] >= 65 /\ s[i] <= 90 THEN s[i] + 32 ELSE s[i]]

\* Value of the leading run of digits of s, given the value acc read so far.
RECURSIVE DigitsValue(_, _)
DigitsValue(s, acc) ==
    IF Len(s) > 0 /\ IsDigit(s[1])
    THEN DigitsValue(Tail(s), 10 * acc + (s[1] - 48))
    ELSE acc

\* parseInt(s, 10): leading white space skipped, an optional sign, then the
\* leading digits; NaN when no digit follows. undefined (NULL) gives NaN.
ParseInt(s) ==
    LET t    == IF s = NULL THEN <<>> ELSE TrimStart(s)
        neg  == Len(t) > 0 /\ t[1] = 45
        sgn  == Len(t) > 0 /\ (t[1] = 45 \/ t[1] = 43)
        body == IF sgn THEN Tail(t) ELSE t
    IN  IF Len(body) > 0 /\ IsDigit(body[1])
        THEN [nan |-> FALSE, val |-> IF neg THEN -DigitsValue(body, 0) ELSE DigitsValue(body, 0)]
        ELSE [nan |-> TRUE, val |-> 0]

----------------------------------------------------------------------------
(* GET /events/decisions: parameters, cursor, queries *)

DEFAULT_LIMIT == 100
MAX_LIMIT == 1000

ValidTypes == {PLAN_CREATED, PLAN_APPROVED, PLAN_REJECTED, PLAN_DEFERRED}

\* The elements of a sequence.
Range(s) == {s[i] : i \in 1..Len(s)}

\* ParseEventTypes returning the empty list, not null, when the parameter
\* names no valid type.
ParseEventTypesEmptyList(typesParam) ==
    IF typesParam = NULL \/ typesParam = <<>> THEN [isNull |-> TRUE, list |-> {}]
    ELSE [isNull |-> FALSE,
          list |-> {ToLowerCase(Trim(t)) : t \in Range(Split(typesParam, COMMA[1]))} \cap ValidTypes]

\* parseEventTypes: the requested valid types, or null (isNull) when the
\* parameter is absent, empty or names no valid type. (The code returns an
\* array and only tests membership in it: a set here.)
ParseEventTypes(typesParam) ==
    IF typesParam = NULL \/ typesParam = <<>> THEN [isNull |-> TRUE, list |-> {}]
    ELSE LET requestedTypes == {ToLowerCase(Trim(t)) : t \in Range(Split(typesParam, COMMA[1]))}
             filteredTypes  == requestedTypes \cap ValidTypes
         IN  [isNull |-> filteredTypes = {}, list |-> filteredTypes]

\* mapApprovalToEventType
MapApprovalToEventType(approved) == IF approved THEN PLAN_APPROVED ELSE PLAN_REJECTED

\* buildEventId: `${type}:${id}:${ts.getTime()}`
BuildEventId(type, id, timestamp) == type \o COLON \o id \o COLON \o NumToString(timestamp)

NoCursor == [ok |-> FALSE, type |-> <<>>, id |-> <<>>, timestamp |-> 0]

\* ParseCursor without the test `parts.length < 3`.
ParseCursorNoArityCheck(c) ==
    LET parts       == Split(c, COLON[1])
        timestampMs == ParseInt(parts[Len(parts)])
    IN  IF timestampMs.nan THEN NoCursor
        ELSE [ok        |-> TRUE,
              type      |-> parts[1],
              id        |-> Join(SubSeq(parts, 2, Len(parts) - 1), COLON),
              timestamp |-> timestampMs.val]

\* ParseCursor with parts[1] for parts.slice(1, -1).join(':'): the id is cut
\* at its first colon.
ParseCursorNoRejoin(c) ==
    LET parts       == Split(c, COLON[1])
        timestampMs == ParseInt(parts[Len(parts)])
    IN  IF Len(parts) < 3 THEN NoCursor
        ELSE IF timestampMs.nan THEN NoCursor
        ELSE [ok        |-> TRUE,
              type      |-> parts[1],
              id        |-> parts[2],
              timestamp |-> timestampMs.val]

\* parseCursor: ok = FALSE stands for the null result.
ParseCursor(c) ==
    LET parts       == Split(c, COLON[1])
        timestampMs == ParseInt(parts[Len(parts)])
    IN  IF Len(parts) < 3 THEN NoCursor
        ELSE IF timestampMs.nan THEN NoCursor
        ELSE [ok        |-> TRUE,
              type      |-> parts[1],
              id        |-> Join(SubSeq(parts, 2, Len(parts) - 1), COLON),
              timestamp |-> timestampMs.val]

\* parsedLimit = Math.min(Math.max(parseInt(limit, 10) || DEFAULT_LIMIT, 1), MAX_LIMIT)
ParsedLimit(limit) ==
    LET n == ParseInt(limit)
        v == IF n.nan \/ n.val = 0 THEN DEFAULT_LIMIT ELSE n.val
    IN  Min(Max(v, 1), MAX_LIMIT)

\* The cursor the two queries apply: `after && typeof after === 'string'`,
\* then parseCursor(after), used only when it is not null.
CursorOf(after) ==
    IF after = NULL \/ after = <<>> THEN NoCursor ELSE ParseCursor(after)

\* AfterCursor with >= for >: the cursor's own row passes the filter again.
AfterCursorInclusive(row, c) ==
    \/ row.ts > c.timestamp
    \/ row.ts = c.timestamp /\ ~StrLess(row.id, c.id)

\* SQL row comparison (created_at, id) > ($1, $2).
AfterCursor(row, c) ==
    \/ row.ts > c.timestamp
    \/ row.ts = c.timestamp /\ StrLess(c.id, row.id)

\* ORDER BY created_at ASC, id ASC
RowLess(r1, r2) == r1.ts < r2.ts \/ (r1.ts = r2.ts /\ StrLess(r1.id, r2.id))

\* The rows of a result set in ORDER BY order.
RECURSIVE OrderRows(_)
OrderRows(S) ==
    IF S = {} THEN <<>>
    ELSE LET first == CHOOSE r \in S : \A q \in S \ {r} : RowLess(r, q)
         IN  <<first>> \o OrderRows(S \ {first})

\* LIMIT n
Limit(rows, n) == SubSeq(rows, 1, Min(n, Len(rows)))

\* SELECT ... FROM decisions [WHERE (created_at, id) > ($1, $2)]
\* ORDER BY created_at ASC, id ASC LIMIT $n
DecisionsQuery(c, parsedLimit) ==
    Limit(OrderRows({d \in decisions : c.ok => AfterCursor(d, c)}), parsedLimit)

\* ApprovalCondition with the test on the number of filters as `> 1`: the
\* condition on a.approved is never added.
ApprovalConditionNeverAdded(a, includeApproved, includeRejected) ==
    LET nFilters == (IF includeApproved THEN 1 ELSE 0) + (IF includeRejected THEN 1 ELSE 0)
    IN  (nFilters > 1 /\ nFilters < 2) =>
            ((includeApproved /\ a.approved = TRUE) \/ (includeRejected /\ a.approved = FALSE))

\* The WHERE condition on a.approved: present only when exactly one of the
\* two filters was pushed (approvalFilters.length > 0 && < 2).
ApprovalCondition(a, includeApproved, includeRejected) ==
    LET nFilters == (IF includeApproved THEN 1 ELSE 0) + (IF includeRejected THEN 1 ELSE 0)
    IN  (nFilters > 0 /\ nFilters < 2) =>
            ((includeApproved /\ a.approved = TRUE) \/ (includeRejected /\ a.approved = FALSE))

\* SELECT ... FROM approvals a JOIN decisions d ON d.id = a.decision_id
\* [WHERE conditions] ORDER BY a.created_at ASC, a.id ASC LIMIT $n
ApprovalsQuery(c, includeApproved, includeRejected, parsedLimit) ==
    Limit(OrderRows({a \in approvals :
                        /\ \E d \in decisions : d.id = a.decision_id
                        /\ ApprovalCondition(a, includeApproved, includeRejected)
                        /\ (c.ok => AfterCursor(a, c))}),
          parsedLimit)

\* The event pushed for a decisions row. `row` names the source row; it is
\* not part of the response.
CreatedEvent(r) ==
    [id        |-> BuildEventId(PLAN_CREATED, r.id, r.ts),
     type      |-> PLAN_CREATED,
     timestamp |-> r.ts,
     plan_id   |-> r.id,
     row       |-> <<"decisions", r.id>>]

\* The event pushed for an approvals row.
ApprovalEvent(r) ==
    [id        |-> BuildEventId(MapApprovalToEventType(r.approved), r.id, r.ts),
     type      |-> MapApprovalToEventType(r.approved),
     timestamp |-> r.ts,
     plan_id   |-> r.decision_id,
     row       |-> <<"approvals", r.id>>]

\* CompareEvents without the tiebreak on the id.
CompareEventsByTimeOnly(a, b) == a.timestamp - b.timestamp

\* The comparator of events.sort: negative when a sorts before b.
CompareEvents(a, b) ==
    IF a.timestamp # b.timestamp THEN a.timestamp - b.timestamp
    ELSE LocaleCompare(a.id, b.id)

\* Array.prototype.sort with CompareEvents (a stable sort): insertion of e
\* behind every element that does not sort after it.
RECURSIVE InsertSorted(_, _)
InsertSorted(e, s) ==
    IF Len(s) = 0 THEN <<e>>
    ELSE IF CompareEvents(e, s[1]) < 0 THEN <<e>> \o s
    ELSE <<s[1]>> \o InsertSorted(e, Tail(s))

RECURSIVE SortEvents(_)
SortEvents(s) ==
    IF Len(s) = 0 THEN <<>>
    ELSE InsertSorted(s[Len(s)], SortEvents(SubSeq(s, 1, Len(s) - 1)))

\* events.slice(0, parsedLimit)
TrimEvents(s, parsedLimit) == SubSeq(s, 1, Min(parsedLimit, Len(s)))

\* NextCursor taking the id of the first event of the page.
NextCursorOfFirst(trimmedEvents) ==
    IF Len(trimmedEvents) > 0 THEN trimmedEvents[1].id ELSE NULL

\* NextCursor with the test `length > 1`: null for a page of one event.
NextCursorNullOnSingle(trimmedEvents) ==
    IF Len(trimmedEvents) > 1 THEN trimmedEvents[Len(trimmedEvents)].id ELSE NULL

\* nextCursor: the id of the last event, or null
NextCursor(trimmedEvents) ==
    IF Len(trimmedEvents) > 0 THEN trimmedEvents[Len(trimmedEvents)].id ELSE NULL

IncludeCreated(eventTypes) == eventTypes.isNull \/ PLAN_CREATED \in eventTypes.list
IncludeApproved(eventTypes) == eventTypes.isNull \/ PLAN_APPROVED \in eventTypes.list
IncludeRejected(eventTypes) == eventTypes.isNull \/ PLAN_REJECTED \in eventTypes.list
IncludeDeferred(eventTypes) == eventTypes.isNull \/ PLAN_DEFERRED \in eventTypes.list

\* if (includeApproved || includeRejected || includeDeferred): the approvals query runs.
IncludeApprovals(eventTypes) ==
    IncludeApproved(eventTypes) \/ IncludeRejected(eventTypes) \/ IncludeDeferred(eventTypes)

\* for (const row of result.rows) events.push(...)
CreatedEvents(rows) == [i \in 1..Len(rows) |-> CreatedEvent(rows[i])]
ApprovalEvents(rows) == [i \in 1..Len(rows) |-> ApprovalEvent(rows[i])]

\* No source query has run.
NoQueries == [decisions |-> "none", approvals |-> "none"]

NoRequest  == [types |-> NULL, after |-> NULL, limit |-> NULL]
NoResponse == [status |-> 0, events |-> <<>>, next_cursor |-> NULL]

\* The array `events` at the handler's first suspension: the rows of the
\* decisions query when plan_created is included, nothing otherwise.
StartEvents(q) ==
    IF IncludeCreated(ParseEventTypes(q.types))
    THEN CreatedEvents(DecisionsQuery(CursorOf(q.after), ParsedLimit(q.limit)))
    ELSE <<>>

\* The 200 response to query q once `events` holds evs: the approvals query
\* (when one of plan_approved, plan_rejected, plan_deferred is included),
\* the sort, the trim to the limit and next_cursor.
Response(q, evs) ==
    LET eventTypes    == ParseEventTypes(q.types)
        parsedLimit   == ParsedLimit(q.limit)
        approvalRows  ==
            IF IncludeApprovals(eventTypes)
            THEN ApprovalsQuery(CursorOf(q.after), IncludeApproved(eventTypes),
                                IncludeRejected(eventTypes), parsedLimit)
            ELSE <<>>
        sorted        == SortEvents(evs \o ApprovalEvents(approvalRows))
        trimmedEvents == TrimEvents(sorted, parsedLimit)
    IN  [status |-> 200, events |-> trimmedEvents, next_cursor |-> NextCursor(trimmedEvents)]

\* listDecisionEventsHandler up to its first suspension: the parameters are
\* parsed and the decisions query has run. The handler then awaits the
\* approvals query, and other requests and writers may run.
HandlerStart(q) ==
    /\ pc = "idle"
    /\ events' = StartEvents(q)
    /\ req' = q
    /\ pc' = "approvals"
    /\ resp' = NoResponse
    /\ seen' = clock
    /\ queries' = [decisions |-> IF IncludeCreated(ParseEventTypes(q.types)) THEN "ok" ELSE "skipped",
                   approvals |-> "none"]
    /\ UNCHANGED <<decisions, approvals, clock>>

\* listDecisionEventsHandler from the approvals query to res.status(200).json.
\* req stays the query of the request that was answered.
HandlerFinish ==
    /\ pc = "approvals"
    /\ resp' = Response(req, events)
    /\ events' = <<>>
    /\ pc' = "idle"
    /\ queries' = [queries EXCEPT !.approvals =
                      IF IncludeApprovals(ParseEventTypes(req.types)) THEN "ok" ELSE "skipped"]
    /\ UNCHANGED <<decisions, approvals, clock, req, seen>>

\* listDecisionEventsHandler from request to response with nothing running
\* between its two queries.
Handle(q) ==
    /\ pc = "idle"
    /\ resp' = Response(q, StartEvents(q))
    /\ req' = q
    /\ events' = <<>>
    /\ pc' = "idle"
    /\ seen' = clock
    /\ queries' = [decisions |-> IF IncludeCreated(ParseEventTypes(q.types)) THEN "ok" ELSE "skipped",
                   approvals |-> IF IncludeApprovals(ParseEventTypes(q.types)) THEN "ok" ELSE "skipped"]
    /\ UNCHANGED <<decisions, approvals, clock>>

----------------------------------------------------------------------------
(* Table contents and request parameters the specifications draw from *)

\* Row ids: "a", "b" (ids are unique within a table, not across tables).
RowIds == {<<97>>, <<98>>}

\* The tables with the given ids and timestamps: every id at most once in a
\* table, every approvals row referencing a decisions row (the JOIN's
\* d.id = a.decision_id) that was created no later than it.
DecisionTables(ids, stamps) ==
    UNION {{ {[id |-> i, ts |-> f[i]] : i \in I} : f \in [I -> stamps] } : I \in SUBSET ids}

ApprovalData(D, stamps) ==
    {x \in [decision_id : {d.id : d \in D}, approved : BOOLEAN, ts : stamps] :
        \E d \in D : d.id = x.decision_id /\ d.ts <= x.ts}

ApprovalTables(D, ids, stamps) ==
    UNION {{ {[id |-> i, decision_id |-> f[i].decision_id, approved |-> f[i].approved, ts |-> f[i].ts] : i \in I}
             : f \in [I -> ApprovalData(D, stamps)] } : I \in SUBSET ids}

\* The composite ids of the events rows of these ids and timestamps can give.
CursorStrings(ids, stamps) ==
    {BuildEventId(t, i, ts) : t \in {PLAN_CREATED, PLAN_APPROVED, PLAN_REJECTED}, i \in ids, ts \in stamps}

\* Values of the `types` parameter: absent, one type, several, an unknown name.
TypesParams ==
    {NULL, PLAN_CREATED, PLAN_APPROVED, PLAN_REJECTED, PLAN_DEFERRED,
     PLAN_APPROVED \o COMMA \o PLAN_REJECTED,
     PLAN_CREATED \o COMMA \o PLAN_DEFERRED,
     FOO}

\* Values of the `limit` parameter of a single request: absent, "1", "2".
RequestLimits == {NULL, <<49>>, <<50>>}

\* Page sizes the polling consumer asks for: absent, "1" .. PageMax as digits.
LimitParams == {NULL} \cup {NumToString(n) : n \in 1..PageMax}

\* Values of the `after` parameter: absent, a composite id, an unparsable string.
AfterParams == {NULL, GARBAGE} \cup CursorStrings(RowIds, 1..TsMax)

----------------------------------------------------------------------------
(* Spec: any request against any tables *)

ConsumerIdle ==
    /\ poll = [types |-> NULL, limit |-> NULL]
    /\ cursor = NULL
    /\ pages = <<>>
    /\ calls = 0

\* No write request has arrived: an empty learning_events table.
WriterIdle ==
    /\ learning_events = {}
    /\ handlers = {}
    /\ replies = <<>>
    /\ now = 0

\* No pure function is called.
NoCall ==
    /\ call = [f |-> "none", args |-> <<>>, done |-> FALSE]
    /\ ret = <<>>

\* The feed and the writers before any request.
ServiceIdle ==
    /\ pc = "idle"
    /\ req = NoRequest
    /\ events = <<>>
    /\ resp = NoResponse
    /\ clock = 0
    /\ seen = 0
    /\ queries = NoQueries
    /\ WriterIdle

HandlerInit ==
    /\ ServiceIdle
    /\ NoCall

Init ==
    /\ decisions \in DecisionTables(RowIds, 1..TsMax)
    /\ approvals \in ApprovalTables(decisions, RowIds, 1..TsMax)
    /\ HandlerInit
    /\ ConsumerIdle

\* A GET /events/decisions request with any parameters is handled. (One
\* request per behaviour: the tables do not change here and the handler keeps
\* nothing between requests, so a later request reaches no state that a
\* first request does not reach.)
Request ==
    /\ resp = NoResponse
    /\ \E t \in TypesParams, a \in AfterParams, l \in RequestLimits :
          Handle([types |-> t, after |-> a, limit |-> l])
    /\ UNCHANGED <<poll, cursor, pages, calls>>
    /\ UNCHANGED <<writeVars, callVars>>

Next == Request

Spec == Init /\ [][Next]_vars

----------------------------------------------------------------------------
(* SpecPoll: a consumer follows next_cursor over fixed tables *)

\* The consumer has received an empty page.
Done == calls > 0 /\ pc = "idle" /\ resp.status = 200 /\ resp.events = <<>>

ConsumerInit ==
    /\ poll \in [types : TypesParams, limit : LimitParams]
    /\ cursor = NULL
    /\ pages = <<>>
    /\ calls = 0

InitPoll ==
    /\ decisions \in DecisionTables(RowIds, 1..TsMax)
    /\ approvals \in ApprovalTables(decisions, RowIds, 1..TsMax)
    /\ HandlerInit
    /\ ConsumerInit

\* The consumer's next call: its own types and limit, and the last
\* next_cursor it received as `after`.
PollRequest == HandlerStart([types |-> poll.types, after |-> cursor, limit |-> poll.limit])

\* The consumer receives the response: it keeps a non-empty page and the
\* cursor of it.
PollReceive ==
    /\ HandlerFinish
    /\ pages' = IF resp'.events # <<>> THEN Append(pages, resp'.events) ELSE pages
    /\ cursor' = IF resp'.next_cursor # NULL THEN resp'.next_cursor ELSE cursor
    /\ UNCHANGED poll

\* The consumer polls until it receives an empty page.
Poll ==
    /\ ~Done
    /\ PollRequest
    /\ UNCHANGED <<poll, cursor, pages, calls>>
    /\ UNCHANGED <<writeVars, callVars>>

Receive ==
    /\ PollReceive
    /\ calls' = calls + 1
    /\ UNCHANGED <<writeVars, callVars>>

NextPoll == Poll \/ Receive

SpecPoll == InitPoll /\ [][NextPoll]_vars

----------------------------------------------------------------------------
(* SpecAppend: rows are appended while the consumer polls *)

InitAppend ==
    /\ decisions = {}
    /\ approvals = {}
    /\ HandlerInit
    /\ poll \in [types : {NULL}, limit : LimitParams]
    /\ cursor = NULL
    /\ pages = <<>>
    /\ calls = 0

\* INSERT INTO decisions: a new id, created_at later than every row so far.
AppendDecision ==
    /\ clock < TsMax
    /\ \E i \in RowIds :
          /\ \A d \in decisions : d.id # i
          /\ decisions' = decisions \cup {[id |-> i, ts |-> clock + 1]}
    /\ clock' = clock + 1
    /\ UNCHANGED <<approvals, pc, req, events, resp, poll, cursor, pages, calls, seen, queries>>
    /\ UNCHANGED <<writeVars, callVars>>

\* INSERT INTO approvals: a new id, an existing decision, created_at later
\* than every row so far.
AppendApproval ==
    /\ clock < TsMax
    /\ \E i \in RowIds, d \in decisions, appr \in BOOLEAN :
          /\ \A a \in approvals : a.id # i
          /\ approvals' = approvals \cup
                {[id |-> i, decision_id |-> d.id, approved |-> appr, ts |-> clock + 1]}
    /\ clock' = clock + 1
    /\ UNCHANGED <<decisions, pc, req, events, resp, poll, cursor, pages, calls, seen, queries>>
    /\ UNCHANGED <<writeVars, callVars>>

\* The consumer keeps polling, also after an empty page (whose null
\* next_cursor leaves its cursor as it was).
PollAgain ==
    /\ PollRequest
    /\ UNCHANGED <<poll, cursor, pages, calls>>
    /\ UNCHANGED <<writeVars, callVars>>

ReceiveAgain ==
    /\ PollReceive
    /\ UNCHANGED calls
    /\ UNCHANGED <<writeVars, callVars>>

NextAppend == AppendDecision \/ AppendApproval \/ PollAgain \/ ReceiveAgain

SpecAppend == InitAppend /\ [][NextAppend]_vars

----------------------------------------------------------------------------
(* What the consumer has received *)

\* The source rows of the events of a page.
PageRows(page) == {page[i].row : i \in 1..Len(page)}

\* The source rows of all pages received.
DeliveredRows == UNION {PageRows(pages[p]) : p \in 1..Len(pages)}

\* (timestamp, id) of e1 before (timestamp, id) of e2: timestamps first,
\* the composite id strings as tiebreak.
EventBefore(e1, e2) ==
    \/ e1.timestamp < e2.timestamp
    \/ e1.timestamp = e2.timestamp /\ StrLess(e1.id, e2.id)

\* The rows of the type families a `types` parameter enables.
EnabledRows(typesParam) ==
    LET eventTypes == ParseEventTypes(typesParam)
    IN  {<<"decisions", d.id>> : d \in {x \in decisions : IncludeCreated(eventTypes)}}
        \cup {<<"approvals", a.id>> :
                a \in {x \in approvals : \/ x.approved /\ IncludeApproved(eventTypes)
                                         \/ ~x.approved /\ IncludeRejected(eventTypes)}}

\* C1: a consumer that follows next_cursor never receives the same source
\* row in two different pages (fixed tables, timestamps may coincide).
C1_NoRowInTwoPages ==
    \A p1, p2 \in 1..Len(pages) :
        p1 < p2 => PageRows(pages[p1]) \cap PageRows(pages[p2]) = {}

\* C2: when the consumer first receives an empty page, every row of the
\* enabled type families has been returned in some page.
C2_NoRowSkipped == Done => EnabledRows(poll.types) \subseteq DeliveredRows

\* The source rows of both tables.
TableRows ==
    {<<"decisions", d.id>> : d \in decisions} \cup {<<"approvals", a.id>> : a \in approvals}

\* No source row occurs twice in the pages received.
NoRowTwice ==
    LET received == UNION {{<<p, i>> : i \in 1..Len(pages[p])} : p \in 1..Len(pages)}
    IN  \A x, y \in received : pages[x[1]][x[2]].row = pages[y[1]][y[2]].row => x = y

\* The consumer has received an empty page for a request that arrived
\* after the last append.
CaughtUp == pc = "idle" /\ resp.status = 200 /\ resp.events = <<>> /\ seen = clock

\* C3: every row appended while the consumer polls is eventually returned
\* to it exactly once. As a property of finite runs: no row is returned
\* twice, and a row is missing from the pages at no empty page answered from
\* the tables as they are (were it missing there and nothing appended
\* afterwards, every later poll would repeat that request and that answer,
\* and the row would never be returned).
C3_AppendedReturnedOnce ==
    /\ NoRowTwice
    /\ CaughtUp => TableRows \subseteq DeliveredRows

\* C5: every event of a later page is greater in (timestamp, composite id)
\* than every event of an earlier page.
C5_AscendingAcrossPages ==
    \A p1, p2 \in 1..Len(pages) :
        p1 < p2 =>
            \A i \in 1..Len(pages[p1]), j \in 1..Len(pages[p2]) :
                EventBefore(pages[p1][i], pages[p2][j])

----------------------------------------------------------------------------
(* SpecDistinct: the consumer over tables with pairwise distinct timestamps *)

\* The row id given to the k-th timestamp: "a", "b", ...
IdOf(k) == <<96 + k>>

\* What is created at one timestamp: nothing, a decisions row, an approvals
\* row (approved or rejected).
Kinds == {"none", "decision", "approved", "rejected"}

\* The decisions rows of an assignment of kinds to timestamps; ids ascend or
\* descend with the timestamps.
DistinctDecisions(kind, asc) ==
    {[id |-> IdOf(IF asc THEN t ELSE DistinctTsMax + 1 - t), ts |-> t] :
        t \in {u \in 1..DistinctTsMax : kind[u] = "decision"}}

\* The approvals rows: each references the latest decisions row before it.
DistinctApprovals(kind, decAsc, appAsc) ==
    {[id          |-> IdOf(IF appAsc THEN t ELSE DistinctTsMax + 1 - t),
      decision_id |-> (CHOOSE d \in DistinctDecisions(kind, decAsc) :
                          d.ts < t /\ \A e \in DistinctDecisions(kind, decAsc) : e.ts < t => e.ts <= d.ts).id,
      approved    |-> kind[t] = "approved",
      ts          |-> t] :
        t \in {u \in 1..DistinctTsMax : kind[u] \in {"approved", "rejected"}}}

InitDistinct ==
    /\ \E kind \in [1..DistinctTsMax -> Kinds], decAsc \in BOOLEAN, appAsc \in BOOLEAN :
          /\ \A t \in 1..DistinctTsMax :
                kind[t] \in {"approved", "rejected"} => \E u \in 1..(t - 1) : kind[u] = "decision"
          /\ decisions = DistinctDecisions(kind, decAsc)
          /\ approvals = DistinctApprovals(kind, decAsc, appAsc)
    /\ HandlerInit
    /\ poll \in [types : {NULL}, limit : LimitParams]
    /\ cursor = NULL
    /\ pages = <<>>
    /\ calls = 0

SpecDistinct == InitDistinct /\ [][NextPoll]_vars

\* All pages received, one after the other.
RECURSIVE Flatten(_)
Flatten(pp) == IF Len(pp) = 0 THEN <<>> ELSE pp[1] \o Flatten(Tail(pp))

\* Number of rows n, page size p, ceil(n / p).
RowCount == Cardinality(decisions) + Cardinality(approvals)
PageSize == ParsedLimit(poll.limit)
CeilDiv(n, p) == (n + p - 1) \div p

\* C6: with pairwise distinct timestamps, after ceil(n/p) calls the consumer
\* has received all n rows, each exactly once, in strictly increasing
\* timestamp order across the pages.
C6_AllOnceInOrder ==
    (pc = "idle" /\ calls = CeilDiv(RowCount, PageSize)) =>
        LET all == Flatten(pages)
        IN  /\ Len(all) = RowCount
            /\ {all[i].row : i \in 1..Len(all)} = TableRows
            /\ \A i \in 1..(Len(all) - 1) : all[i].timestamp < all[i + 1].timestamp

\* The spec's case: five rows in both tables, page size 2, three calls made.
C6_Witness ==
    /\ pc = "idle" /\ calls = 3 /\ PageSize = 2 /\ RowCount = 5
    /\ Cardinality(decisions) >= 2 /\ Cardinality(approvals) >= 2
    /\ Len(Flatten(pages)) = 5

\* The third call of the spec's case has been answered.
ThirdCallAnswered == pc = "idle" /\ calls = 3 /\ PageSize = 2 /\ RowCount = 5

\* C7 as stated: the response of the third call, which returns the last
\* remaining event, has next_cursor null.
C7_ThirdCursorNull == ThirdCallAnswered => resp.next_cursor = NULL

\* C7 amended: the third call returns the fifth event and its id as
\* next_cursor; next_cursor is null at the fourth call, which returns an
\* empty page.
C7_ThirdCursorIsLastId ==
    /\ ThirdCallAnswered =>
          /\ Len(resp.events) = 1
          /\ resp.next_cursor = resp.events[1].id
          /\ resp.next_cursor # NULL
    /\ (pc = "idle" /\ calls = 4 /\ PageSize = 2 /\ RowCount = 5) =>
          /\ resp.events = <<>>
          /\ resp.next_cursor = NULL

C7_Witness ==
    /\ pc = "idle" /\ calls = 4 /\ PageSize = 2 /\ RowCount = 5
    /\ Len(Flatten(pages)) = 5
    /\ cursor = pages[3][1].id

----------------------------------------------------------------------------
(* Single responses (Spec) *)

Answered == pc = "idle" /\ resp.status = 200

\* C4: in every 200 response consecutive events are strictly ascending in
\* (timestamp, composite id).
C4_PageStrictlyOrdered ==
    Answered =>
        \A i \in 1..(Len(resp.events) - 1) : EventBefore(resp.events[i], resp.events[i + 1])

\* A page of two events of both tables with one timestamp.
C4_Witness ==
    /\ Answered
    /\ Len(resp.events) = 2
    /\ resp.events[1].timestamp = resp.events[2].timestamp
    /\ resp.events[1].type = PLAN_APPROVED
    /\ resp.events[2].type = PLAN_CREATED

\* C8: next_cursor is the id of the last event of a non-empty page, and is
\* null exactly when the page is empty.
C8_NextCursorIsLastId ==
    Answered =>
        /\ Len(resp.events) > 0 => resp.next_cursor = resp.events[Len(resp.events)].id
        /\ resp.next_cursor = NULL <=> Len(resp.events) = 0

\* A page of two different events, requested with a cursor.
C8_Witness ==
    /\ Answered
    /\ Len(resp.events) = 2
    /\ req.after # NULL
    /\ resp.next_cursor = resp.events[2].id
    /\ resp.events[1].id # resp.events[2].id

\* C9: with types=plan_approved every event is a plan_approved event of an
\* approvals row whose approved flag is true.
C9_OnlyApproved ==
    (Answered /\ req.types = PLAN_APPROVED) =>
        \A i \in 1..Len(resp.events) :
            /\ resp.events[i].type = PLAN_APPROVED
            /\ resp.events[i].row[1] = "approvals"
            /\ \E a \in approvals : a.id = resp.events[i].row[2] /\ a.approved = TRUE

\* An approved row is returned while the tables also hold a rejected row.
C9_Witness ==
    /\ Answered /\ req.types = PLAN_APPROVED
    /\ Len(resp.events) = 1
    /\ \E a \in approvals : ~a.approved
    /\ decisions # {}

\* C10: for a non-empty set of valid requested types, every event of the
\* response has one of the requested types.
C10_TypesRespected ==
    (Answered /\ ~ParseEventTypes(req.types).isNull) =>
        \A i \in 1..Len(resp.events) : resp.events[i].type \in ParseEventTypes(req.types).list

----------------------------------------------------------------------------
(* SpecMalformed: requests whose `after` is not a cursor *)

\* "plan_created:2": two segments, the last one a number
TWO_SEGMENTS == PLAN_CREATED \o COLON \o <<50>>

\* "plan_created:a:x", "plan_created:a:": three segments, the last one
\* without a digit
LAST_NOT_NUMBER == PLAN_CREATED \o COLON \o <<97>> \o COLON \o <<120>>
LAST_EMPTY      == PLAN_CREATED \o COLON \o <<97>> \o COLON

\* "plan_created:a:1x": parseInt reads the leading digits, so this is the
\* cursor (plan_created, a, 1).
LAST_DIGITS_THEN_LETTER == PLAN_CREATED \o COLON \o <<97, 58, 49, 120>>

\* Values of `after` around the edge of what parseCursor accepts: absent,
\* empty, the strings above, and one well-formed cursor.
MalformedAfterParams ==
    {NULL, <<>>, GARBAGE, TWO_SEGMENTS, LAST_NOT_NUMBER, LAST_EMPTY, LAST_DIGITS_THEN_LETTER,
     BuildEventId(PLAN_CREATED, <<97>>, 1)}

RequestMalformed ==
    /\ resp = NoResponse
    /\ \E t \in TypesParams, a \in MalformedAfterParams, l \in RequestLimits :
          Handle([types |-> t, after |-> a, limit |-> l])
    /\ UNCHANGED <<poll, cursor, pages, calls>>
    /\ UNCHANGED <<writeVars, callVars>>

NextMalformed == RequestMalformed

SpecMalformed == Init /\ [][NextMalformed]_vars

\* The shape of an `after` value that is not a cursor: fewer than three
\* segments between colons, or a last segment that does not begin with a
\* number (white space and a sign may precede the digits, as for parseInt).
Unparsable(after) ==
    LET parts == Split(after, COLON[1])
        last  == TrimStart(parts[Len(parts)])
        body  == IF Len(last) > 0 /\ (last[1] = 45 \/ last[1] = 43) THEN Tail(last) ELSE last
    IN  Len(parts) < 3 \/ Len(body) = 0 \/ ~IsDigit(body[1])

\* The request q without its `after` parameter.
WithoutAfter(q) == [q EXCEPT !.after = NULL]

----------------------------------------------------------------------------
(* SpecLimit: requests with any `limit` *)

\* Values of `limit`: absent, "0", "-5", "abc", "1", "2", "2000".
AnyLimits == {NULL, <<48>>, <<45, 53>>, <<97, 98, 99>>, <<49>>, <<50>>, <<50, 48, 48, 48>>}

RequestLimit ==
    /\ resp = NoResponse
    /\ \E t \in TypesParams, l \in AnyLimits :
          Handle([types |-> t, after |-> NULL, limit |-> l])
    /\ UNCHANGED <<poll, cursor, pages, calls>>
    /\ UNCHANGED <<writeVars, callVars>>

NextLimit == RequestLimit

SpecLimit == Init /\ [][NextLimit]_vars

\* The requested limit clamped into [1, 1000]; 100 when no limit (or no
\* number) is supplied.
ClampedLimit(limit) ==
    LET n == ParseInt(limit)
    IN  IF n.nan THEN DEFAULT_LIMIT ELSE Min(Max(n.val, 1), MAX_LIMIT)

\* C12: the effective page size is the requested limit clamped into
\* [1, 1000] (100 when none is supplied), and a response never holds more
\* events than that, whatever limit is sent.
C12_AtMostClampedLimit ==
    Answered => /\ ParsedLimit(req.limit) = ClampedLimit(req.limit)
                /\ Len(resp.events) <= ClampedLimit(req.limit)

----------------------------------------------------------------------------
(* SpecFail: the source queries may fail *)

\* A catch block around the failing query only: the events read so far are
\* sent as a page.
FailureResponsePartial(evs) ==
    [status |-> 200, events |-> evs, next_cursor |-> NextCursor(evs)]

\* The catch block: res.status(500).json({error: 'internal_error', ...}).
\* The body has no `events`.
FailureResponse(evs) == [status |-> 500, error |-> "internal_error"]

\* A request arrives; its decisions query (if any) succeeds.
Arrive ==
    /\ resp = NoResponse
    /\ \E t \in TypesParams, a \in {NULL, GARBAGE}, l \in RequestLimits :
          HandlerStart([types |-> t, after |-> a, limit |-> l])
    /\ UNCHANGED <<poll, cursor, pages, calls>>
    /\ UNCHANGED <<writeVars, callVars>>

\* A request arrives and its decisions query throws: the catch block answers.
DecisionsQueryFails ==
    /\ resp = NoResponse
    /\ pc = "idle"
    /\ \E t \in TypesParams, a \in {NULL, GARBAGE}, l \in RequestLimits :
          /\ IncludeCreated(ParseEventTypes(t))
          /\ req' = [types |-> t, after |-> a, limit |-> l]
    /\ resp' = FailureResponse(<<>>)
    /\ events' = <<>>
    /\ queries' = [decisions |-> "failed", approvals |-> "none"]
    /\ seen' = clock
    /\ UNCHANGED <<decisions, approvals, pc, clock, poll, cursor, pages, calls>>
    /\ UNCHANGED <<writeVars, callVars>>

\* The approvals query (if any) succeeds and the response is sent.
Answer ==
    /\ HandlerFinish
    /\ UNCHANGED <<poll, cursor, pages, calls>>
    /\ UNCHANGED <<writeVars, callVars>>

\* The approvals query throws: the catch block answers and `events` is dropped.
ApprovalsQueryFails ==
    /\ pc = "approvals"
    /\ IncludeApprovals(ParseEventTypes(req.types))
    /\ resp' = FailureResponse(events)
    /\ events' = <<>>
    /\ pc' = "idle"
    /\ queries' = [queries EXCEPT !.approvals = "failed"]
    /\ UNCHANGED <<decisions, approvals, clock, req, seen, poll, cursor, pages, calls>>
    /\ UNCHANGED <<writeVars, callVars>>

NextFail == Arrive \/ DecisionsQueryFails \/ Answer \/ ApprovalsQueryFails

SpecFail == Init /\ [][NextFail]_vars

\* A response has been sent to the request req.
Responded == pc = "idle" /\ resp # NoResponse

\* C13: when a source query failed the response is 500 internal_error
\* without events, also when the other query had succeeded; a 200 response
\* means every enabled source query succeeded.
C13_FailureGivesNoEvents ==
    Responded =>
        /\ ("failed" \in {queries.decisions, queries.approvals}) =>
              /\ resp.status = 500
              /\ resp.error = "internal_error"
              /\ "events" \notin DOMAIN resp
        /\ resp.status = 200 =>
              /\ IncludeCreated(ParseEventTypes(req.types)) => queries.decisions = "ok"
              /\ IncludeApprovals(ParseEventTypes(req.types)) => queries.approvals = "ok"

\* The decisions query returned rows, then the approvals query failed.
C13_Witness ==
    /\ Responded
    /\ queries = [decisions |-> "ok", approvals |-> "failed"]
    /\ decisions # {}
    /\ req.after = NULL
    /\ resp.status = 500

----------------------------------------------------------------------------
(* The write endpoints: JSON text and the inputs hash *)

\* Property names of the two `inputs` objects.
K_decision_id == <<100, 101, 99, 105, 115, 105, 111, 110, 95, 105, 100>>
K_approved == <<97, 112, 112, 114, 111, 118, 101, 100>>
K_confidence_adjustment == <<99, 111, 110, 102, 105, 100, 101, 110, 99, 101, 95, 97, 100, 106, 117, 115, 116, 109, 101, 110, 116>>
K_reviewer_role == <<114, 101, 118, 105, 101, 119, 101, 114, 95, 114, 111, 108, 101>>
K_review_scope == <<114, 101, 118, 105, 101, 119, 95, 115, 99, 111, 112, 101>>
K_artifact_type == <<97, 114, 116, 105, 102, 97, 99, 116, 95, 116, 121, 112, 101>>
K_timestamp == <<116, 105, 109, 101, 115, 116, 97, 109, 112>>
K_source_artifact_id == <<115, 111, 117, 114, 99, 101, 95, 97, 114, 116, 105, 102, 97, 99, 116, 95, 105, 100>>
K_feedback_type == <<102, 101, 101, 100, 98, 97, 99, 107, 95, 116, 121, 112, 101>>
K_raw_feedback == <<114, 97, 119, 95, 102, 101, 101, 100, 98, 97, 99, 107>>
K_feedback_source == <<102, 101, 101, 100, 98, 97, 99, 107, 95, 115, 111, 117, 114, 99, 101>>

\* 'none', 'unknown', 'general': the defaults of absent optional fields;
\* "true", "false": JSON text of the booleans; 'mixed', 'human', 'fine',
\* 'poor': values of feedback_type, feedback_source and raw_feedback.
NONE == <<110, 111, 110, 101>>
UNKNOWN == <<117, 110, 107, 110, 111, 119, 110>>
GENERAL == <<103, 101, 110, 101, 114, 97, 108>>
TRUE_TEXT == <<116, 114, 117, 101>>
FALSE_TEXT == <<102, 97, 108, 115, 101>>
MIXED == <<109, 105, 120, 101, 100>>
HUMAN == <<104, 117, 109, 97, 110>>
FINE == <<102, 105, 110, 101>>
POOR == <<112, 111, 111, 114>>

\* Numbers are fixed-point: the number x is the integer Unit * x, so 0.05 is 5
\* and 1.0 is Unit.
Unit == 100

\* String(x) of a number: digits, and the hundredths after a point without
\* trailing zeros ("0", "0.5", "-1.25").
DecimalText(n) ==
    LET a  == IF n < 0 THEN -n ELSE n
        fr == a % Unit
    IN  (IF n < 0 THEN <<45>> ELSE <<>>)
        \o ToDigits(a \div Unit)
        \o (IF fr = 0 THEN <<>>
            ELSE <<46>> \o (IF fr % 10 = 0 THEN ToDigits(fr \div 10)
                            ELSE (IF fr < 10 THEN <<48>> ELSE <<>>) \o ToDigits(fr)))

\* JSON values of the `inputs` objects: a string, a boolean, a number, or
\* a nested object. An object is the sequence of its <<key, value>> pairs in
\* insertion order.
JString(s) == [t |-> "string", s |-> s, b |-> FALSE, n |-> 0]
JBool(b) == [t |-> "boolean", s |-> <<>>, b |-> b, n |-> 0]
JNumber(n) == [t |-> "number", s |-> <<>>, b |-> FALSE, n |-> n]
JObject(o) == [t |-> "object", s |-> <<>>, b |-> FALSE, n |-> 0, o |-> o]

\* JSON.stringify of a string without characters to escape.
Quote(s) == <<34>> \o s \o <<34>>

RECURSIVE Stringify(_), StringifyObject(_)

\* JSON.stringify of a value.
Stringify(v) ==
    IF v.t = "string" THEN Quote(v.s)
    ELSE IF v.t = "boolean" THEN (IF v.b THEN TRUE_TEXT ELSE FALSE_TEXT)
    ELSE IF v.t = "number" THEN DecimalText(v.n)
    ELSE StringifyObject(v.o)

\* JSON.stringify of an object: {"k":v,...} in insertion order, nested
\* objects included.
StringifyObject(obj) ==
    <<123>> \o Join([i \in 1..Len(obj) |-> Quote(obj[i][1]) \o COLON \o Stringify(obj[i][2])], COMMA)
            \o <<125>>

\* Object.keys(inputs)
ObjectKeys(obj) == [i \in 1..Len(obj) |-> obj[i][1]]

\* keys.sort(): ascending by UTF-16 code units.
RECURSIVE InsertKey(_, _)
InsertKey(k, s) ==
    IF Len(s) = 0 THEN <<k>>
    ELSE IF StrLess(k, s[1]) THEN <<k>> \o s
    ELSE <<s[1]>> \o InsertKey(k, Tail(s))

RECURSIVE SortKeys(_)
SortKeys(s) ==
    IF Len(s) = 0 THEN <<>>
    ELSE InsertKey(s[Len(s)], SortKeys(SubSeq(s, 1, Len(s) - 1)))

\* inputs[key]
ValueOf(obj, key) == obj[CHOOSE i \in 1..Len(obj) : obj[i][1] = key][2]

\* createHash('sha256').update(text).digest('hex'). The digest has no
\* collisions on the texts that occur: the text stands for its digest.
Sha256(text) == text

\* computeInputsHash of the approval handler: the keys sorted, the object
\* rebuilt in that order, serialised and digested.
ComputeInputsHash(inputs) ==
    LET sortedKeys == SortKeys(ObjectKeys(inputs))
    IN  Sha256(StringifyObject([i \in 1..Len(sortedKeys) |->
                                   <<sortedKeys[i], ValueOf(inputs, sortedKeys[i])>>]))

\* key in obj
HasKey(obj, key) == \E i \in 1..Len(obj) : obj[i][1] = key

\* The keys of the array `keys` that obj holds, in the order of `keys`.
RECURSIVE Listed(_, _)
Listed(obj, keys) ==
    IF Len(keys) = 0 THEN <<>>
    ELSE (IF HasKey(obj, keys[1]) THEN <<keys[1]>> ELSE <<>>) \o Listed(obj, Tail(keys))

\* JSON.stringify(obj, keys): an array as replacer is the list of the
\* properties to serialise, for the object and for every object nested in
\* it; they are written in the order of `keys`, and a property whose name is
\* not in `keys` is left out.
RECURSIVE StringifyWithReplacer(_, _)
StringifyWithReplacer(obj, keys) ==
    LET listed == Listed(obj, keys)
        Text(v) == IF v.t = "object" THEN StringifyWithReplacer(v.o, keys) ELSE Stringify(v)
    IN  <<123>> \o Join([i \in 1..Len(listed) |->
                            Quote(listed[i]) \o COLON \o Text(ValueOf(obj, listed[i]))], COMMA)
                \o <<125>>

\* computeInputsHash of the feedback handler:
\* JSON.stringify(inputs, Object.keys(inputs).sort()), digested.
ComputeInputsHashWithReplacer(inputs) ==
    Sha256(StringifyWithReplacer(inputs, SortKeys(ObjectKeys(inputs))))

\* new Date(t).toISOString(): the text of a time, here its milliseconds in digits.
ToISOString(t) == NumToString(t)

\* uuidv4(): the k-th identifier produced, "u" and k in digits. No two calls
\* give the same identifier.
Uuid(k) == <<117>> \o NumToString(k)

\* s || d for an optional string: d when s is undefined or empty.
OrDefault(s, d) == IF s = NULL \/ s = <<>> THEN d ELSE s

\* An absent optional number.
NoNumber == [given |-> FALSE, n |-> 0]

\* x || 0 for an optional number.
OrZero(x) == IF x.given THEN x.n ELSE 0

\* Math.max(lo, Math.min(hi, x))
Clamp(x, lo, hi) == Max(lo, Min(hi, x))

\* NormalizeApprovalSignal without Math.max(-1, Math.min(1, ...)).
NormalizeApprovalSignalUnclamped(approved, confidence_adjustment) ==
    LET baseSignal == IF approved THEN Unit ELSE -Unit
    IN  IF confidence_adjustment.given
        THEN (baseSignal * (Unit + confidence_adjustment.n)) \div Unit
        ELSE baseSignal

\* normalizeApprovalSignal
NormalizeApprovalSignal(approved, confidence_adjustment) ==
    LET baseSignal == IF approved THEN Unit ELSE -Unit
    IN  IF confidence_adjustment.given
        THEN Clamp((baseSignal * (Unit + confidence_adjustment.n)) \div Unit, -Unit, Unit)
        ELSE baseSignal

\* createApprovalLearningHandler: the object `inputs`, built at wall-clock time t.
LearnInputs(body, t) ==
    << <<K_decision_id, JString(OrDefault(body.decision_id, NONE))>>,
       <<K_approved, JBool(body.approved)>>,
       <<K_confidence_adjustment, JNumber(OrZero(body.confidence_adjustment))>>,
       <<K_reviewer_role, JString(OrDefault(body.reviewer_role, UNKNOWN))>>,
       <<K_review_scope, JString(OrDefault(body.review_scope, GENERAL))>>,
       <<K_artifact_type, JString(OrDefault(body.artifact_type, UNKNOWN))>>,
       <<K_timestamp, JString(OrDefault(body.timestamp, ToISOString(t)))>> >>

\* createFeedbackAssimilationHandler: the object `inputs`.
AssimilateInputs(body) ==
    << <<K_source_artifact_id, JString(body.source_artifact_id)>>,
       <<K_feedback_type, JString(body.feedback_type)>>,
       <<K_raw_feedback, JString(body.raw_feedback)>>,
       <<K_feedback_source, JString(body.feedback_source)>> >>

\* AssimilateInputsHash without `providedHash ||`: always the computed hash.
AssimilateInputsHashComputed(body) ==
    ComputeInputsHashWithReplacer(AssimilateInputs(body))

\* inputsHash = providedHash || computeInputsHash(inputs)
AssimilateInputsHash(body) ==
    OrDefault(body.inputs_hash, ComputeInputsHashWithReplacer(AssimilateInputs(body)))

----------------------------------------------------------------------------
(* The write endpoints: table learning_events and the two handlers *)

APPROVAL_LEARNING == "approval_learning"
FEEDBACK_ASSIMILATION == "feedback_assimilation"

\* The state of the read endpoint and of its consumer.
readVars == <<decisions, approvals, pc, req, events, resp, poll, cursor, pages, calls, clock, seen, queries>>

\* The unique index on learning_events(inputs_hash) that ON CONFLICT
\* (inputs_hash) names: no row is stored whose hash a stored row has.
ConflictsNever(inputs_hash) == FALSE

Conflicts(inputs_hash) == \E e \in learning_events : e.inputs_hash = inputs_hash

\* INSERT ... ON CONFLICT (inputs_hash) DO UPDATE: the stored row is replaced.
InsertOnConflictDoUpdate(row) ==
    {e \in learning_events : e.inputs_hash # row.inputs_hash} \cup {row}

\* The INSERT not carried out by the time the handler goes on: the table is
\* as it was.
InsertNotDone(row) == learning_events

\* INSERT ... ON CONFLICT (inputs_hash) DO NOTHING
InsertOnConflictDoNothing(row) ==
    IF Conflicts(row.inputs_hash) THEN learning_events ELSE learning_events \cup {row}

\* The lookup of another decision_type: it never finds a feedback event.
ExistingRowsOfApprovals(inputs_hash) ==
    {e \in learning_events : e.inputs_hash = inputs_hash /\ e.decision_type = APPROVAL_LEARNING}

\* SELECT id FROM learning_events WHERE inputs_hash = $1 AND decision_type = $2
ExistingRows(inputs_hash) ==
    {e \in learning_events : e.inputs_hash = inputs_hash /\ e.decision_type = FEEDBACK_ASSIMILATION}

\* The number of write requests that have arrived.
Arrived == Len(replies) + Cardinality(handlers)

\* res.status(201).json({id, ...}) and the catch block's
\* res.status(500).json({error: 'internal_error', ...}).
AssimilateCreated(id, body) ==
    [status             |-> 201,
     id                 |-> id,
     source_artifact_id |-> body.source_artifact_id,
     feedback_type      |-> body.feedback_type]
InternalError == [status |-> 500, error |-> "internal_error"]

\* The catch block's answer to a ZodError.
ValidationError == [status |-> 400, error |-> "validation_error"]

\* createApprovalLearningSchema accepting every body.
LearnSchemaAny(body) == TRUE

\* createApprovalLearningSchema.parse(req.body) does not throw: decision_id,
\* when present, has at least one character, and confidence_adjustment,
\* when present, lies in [-1, 1]. (The bodies modelled hold a boolean
\* `approved` and strings in the other fields.)
LearnSchema(body) ==
    /\ body.decision_id = NULL \/ Len(body.decision_id) >= 1
    /\ body.approved \in BOOLEAN
    /\ body.confidence_adjustment.given
          => (body.confidence_adjustment.n >= -Unit /\ body.confidence_adjustment.n <= Unit)

\* 'qualitative', 'quantitative': with 'mixed' the members of the enum of
\* feedback_type.
QUALITATIVE == <<113, 117, 97, 108, 105, 116, 97, 116, 105, 118, 101>>
QUANTITATIVE == <<113, 117, 97, 110, 116, 105, 116, 97, 116, 105, 118, 101>>

\* createFeedbackAssimilationSchema.parse(req.body) does not throw:
\* source_artifact_id and raw_feedback have at least one character and
\* feedback_type is of the enum. (The bodies modelled hold an
\* assimilation_metadata with a feedback_source.)
AssimilateSchema(body) ==
    /\ body.source_artifact_id # NULL /\ Len(body.source_artifact_id) >= 1
    /\ body.feedback_type \in {QUALITATIVE, QUANTITATIVE, MIXED}
    /\ body.raw_feedback # NULL /\ Len(body.raw_feedback) >= 1

\* sourceDecision = null
NoSource == [found |-> FALSE, recommendation |-> NULL, confidence |-> NoNumber]

\* decisionResult.rows[0] of SELECT ... FROM decisions WHERE id = $1, or null.
SourceDecision(decision_id) ==
    IF \E d \in decisions : d.id = decision_id
    THEN LET d == CHOOSE d \in decisions : d.id = decision_id
         IN  [found |-> TRUE, recommendation |-> d.recommendation,
              confidence |-> [given |-> TRUE, n |-> d.confidence]]
    ELSE NoSource

\* x || null for a number: null when x is undefined, null or 0.
NumberOrNull(x) == IF x.given /\ x.n # 0 THEN x ELSE NoNumber

\* |x|
Abs(x) == IF x < 0 THEN -x ELSE x

\* The object `output` of createApprovalLearningHandler.
LearnOutput(body, sourceDecision) ==
    LET normalizedSignal == NormalizeApprovalSignal(body.approved, body.confidence_adjustment)
    IN  [normalized_signal     |-> normalizedSignal,
         signal_type           |-> IF body.approved THEN "approval" ELSE "rejection",
         signal_strength       |-> Abs(normalizedSignal),
         feedback              |-> OrDefault(body.feedback, NULL),
         source_recommendation |-> OrDefault(sourceDecision.recommendation, NULL),
         source_confidence     |-> NumberOrNull(sourceDecision.confidence)]

\* LearnConfidence with the boost of the source decision applied whether or
\* not a source decision was found.
LearnConfidenceAlwaysBoosted(body, sourceDecision) ==
    LET normalizedSignal == NormalizeApprovalSignal(body.approved, body.confidence_adjustment)
        boosted          == Min(Unit, Abs(normalizedSignal) + 10)
    IN  IF body.reviewer_role # NULL /\ body.reviewer_role # <<>> /\ body.reviewer_role # UNKNOWN
        THEN Min(Unit, boosted + 5)
        ELSE boosted

\* LearnConfidence without Math.min(1.0, ...).
LearnConfidenceUncapped(body, sourceDecision) ==
    LET normalizedSignal == NormalizeApprovalSignal(body.approved, body.confidence_adjustment)
        boosted          == Abs(normalizedSignal) + (IF sourceDecision.found THEN 10 ELSE 0)
    IN  IF body.reviewer_role # NULL /\ body.reviewer_role # <<>> /\ body.reviewer_role # UNKNOWN
        THEN boosted + 5
        ELSE boosted

\* The confidence of createApprovalLearningHandler: |signal|, + 0.1 with a
\* source decision, + 0.05 with a reviewer role that is truthy and not
\* 'unknown', each capped at 1.0.
LearnConfidence(body, sourceDecision) ==
    LET normalizedSignal == NormalizeApprovalSignal(body.approved, body.confidence_adjustment)
        boosted          == IF sourceDecision.found THEN Min(Unit, Abs(normalizedSignal) + 10)
                            ELSE Abs(normalizedSignal)
    IN  IF body.reviewer_role # NULL /\ body.reviewer_role # <<>> /\ body.reviewer_role # UNKNOWN
        THEN Min(Unit, boosted + 5)
        ELSE boosted

\* The object constraintsApplied.
ConstraintsApplied(body, sourceDecision) ==
    [reviewer_role      |-> OrDefault(body.reviewer_role, UNKNOWN),
     review_scope       |-> OrDefault(body.review_scope, GENERAL),
     artifact_type      |-> OrDefault(body.artifact_type, UNKNOWN),
     has_source_context |-> sourceDecision.found,
     has_feedback       |-> body.feedback # NULL /\ body.feedback # <<>>]

\* res.status(201).json({id, normalized_signal, confidence, inputs_hash, ...})
LearnCreated(id, body, sourceDecision, inputs_hash) ==
    [status            |-> 201,
     id                |-> id,
     normalized_signal |-> NormalizeApprovalSignal(body.approved, body.confidence_adjustment),
     confidence        |-> LearnConfidence(body, sourceDecision),
     inputs_hash       |-> inputs_hash]

\* The log of responses with response sent by handler h. Beside the
\* response it notes the request (endpoint, body), the time its inputs were
\* built, its inputs hash, whether its lookup found a row, whether the
\* table (as the handler's statement left it) holds a row with the id sent,
\* the statements the handler issued, in order, and the one that threw.
Sent(h, response, table) ==
    Append(replies,
           [endpoint    |-> h.endpoint,
            body        |-> h.body,
            at          |-> h.at,
            inputs_hash |-> h.inputs_hash,
            found       |-> h.found,
            response    |-> response,
            stored      |-> response.status = 201 /\ \E e \in table : e.id = response.id,
            stmts       |-> h.stmts,
            failed      |-> h.failed])

\* The statements of the handlers.
SELECT_DECISION == "SELECT decisions"
SELECT_EVENT    == "SELECT learning_events"
INSERT_EVENT    == "INSERT learning_events"

\* Handler h with one more statement issued.
Issued(h, stmt) == [h EXCEPT !.stmts = Append(h.stmts, stmt)]

\* A request that was answered before its handler reached a statement.
Unstarted(endpoint, body) ==
    [endpoint |-> endpoint, body |-> body, at |-> now, inputs_hash |-> <<>>, found |-> FALSE,
     stmts |-> <<>>, failed |-> "none"]

\* createApprovalLearningHandler from the validated body to the suspension
\* at emitLearningDecisionEvent: `inputs` built at the present time, its
\* hash, a new uuid.
LearnPrepared(n, body, sourceDecision, stmts) ==
    [n           |-> n,
     pc          |-> "insert",
     endpoint    |-> "learn",
     body        |-> body,
     at          |-> now,
     inputs_hash |-> ComputeInputsHash(LearnInputs(body, now)),
     id          |-> Uuid(n),
     found       |-> sourceDecision.found,
     source      |-> sourceDecision,
     stmts       |-> stmts,
     failed      |-> "none"]

\* POST /learning/learn arrives as the n-th write request. A body the
\* schema rejects is answered 400 at once. With a decision_id the handler
\* suspends at the SELECT of the source decision; without one it runs on to
\* the INSERT.
LearnArrive(body) ==
    /\ IF LearnSchema(body)
       THEN /\ handlers' = handlers \cup
                  {IF body.decision_id # NULL /\ body.decision_id # <<>>
                   THEN [n |-> Arrived + 1, pc |-> "lookup", endpoint |-> "learn", body |-> body,
                         at |-> now, inputs_hash |-> <<>>, id |-> <<>>, found |-> FALSE,
                         source |-> NoSource, stmts |-> <<>>, failed |-> "none"]
                   ELSE LearnPrepared(Arrived + 1, body, NoSource, <<>>)}
            /\ UNCHANGED replies
       ELSE /\ replies' = Sent(Unstarted("learn", body), ValidationError, learning_events)
            /\ UNCHANGED handlers
    /\ UNCHANGED <<learning_events, now>>
    /\ UNCHANGED <<readVars, callVars>>

\* SELECT ... FROM decisions WHERE id = $1 returns to handler h; a missing
\* decision is logged and the handler goes on.
LearnLookup(h) ==
    /\ h.pc = "lookup"
    /\ handlers' = (handlers \ {h}) \cup
          {LearnPrepared(h.n, h.body, SourceDecision(h.body.decision_id),
                         Append(h.stmts, SELECT_DECISION))}
    /\ UNCHANGED <<learning_events, replies, now>>
    /\ UNCHANGED <<readVars, callVars>>

\* The row emitLearningDecisionEvent inserts for handler h (outputs and
\* constraints_applied are stored as their JSON text; the row keeps the
\* objects).
LearnEvent(h) ==
    [id                  |-> h.id,
     inputs_hash         |-> h.inputs_hash,
     decision_type       |-> APPROVAL_LEARNING,
     source_type         |-> "approval_learning",
     created_at          |-> OrDefault(h.body.timestamp, ToISOString(h.at)),
     source_id           |-> OrDefault(h.body.decision_id, NULL),
     outputs             |-> LearnOutput(h.body, h.source),
     confidence          |-> LearnConfidence(h.body, h.source),
     constraints_applied |-> ConstraintsApplied(h.body, h.source)]

\* emitLearningDecisionEvent's INSERT runs and handler h answers 201 with
\* the uuid it generated.
LearnInsert(h) ==
    LET row == LearnEvent(h)
    IN  /\ h.pc = "insert"
        /\ h.endpoint = "learn"
        /\ learning_events' = InsertOnConflictDoNothing(row)
        /\ replies' = Sent(Issued(h, INSERT_EVENT),
                           LearnCreated(h.id, h.body, h.source, h.inputs_hash), learning_events')
        /\ handlers' = handlers \ {h}
        /\ UNCHANGED now
        /\ UNCHANGED <<readVars, callVars>>

\* POST /learning/assimilate arrives as the n-th write request. A body the
\* schema rejects is answered 400 at once; otherwise the handler computes
\* the inputs hash and suspends at emitLearningEvent's SELECT.
AssimilateArrive(body) ==
    /\ IF AssimilateSchema(body)
       THEN /\ handlers' = handlers \cup
                  {[n |-> Arrived + 1, pc |-> "select", endpoint |-> "assimilate", body |-> body,
                    at |-> now, inputs_hash |-> AssimilateInputsHash(body), id |-> <<>>,
                    found |-> FALSE, stmts |-> <<>>, failed |-> "none"]}
            /\ UNCHANGED replies
       ELSE /\ replies' = Sent(Unstarted("assimilate", body), ValidationError, learning_events)
            /\ UNCHANGED handlers
    /\ UNCHANGED <<learning_events, now>>
    /\ UNCHANGED <<readVars, callVars>>

\* emitLearningEvent's SELECT returns to handler h. With a row the handler
\* answers 201 with that row's id; without one it generates a uuid and
\* suspends at the INSERT.
AssimilateSelect(h) ==
    LET existingResult == ExistingRows(h.inputs_hash)
    IN  /\ h.pc = "select"
        /\ IF existingResult # {}
           THEN /\ \E e \in existingResult :
                      replies' = Sent([Issued(h, SELECT_EVENT) EXCEPT !.found = TRUE],
                                      AssimilateCreated(e.id, h.body), learning_events)
                /\ handlers' = handlers \ {h}
           ELSE /\ handlers' = (handlers \ {h}) \cup
                      {[Issued(h, SELECT_EVENT) EXCEPT !.pc = "insert", !.id = Uuid(h.n)]}
                /\ UNCHANGED replies
        /\ UNCHANGED <<learning_events, now>>
        /\ UNCHANGED <<readVars, callVars>>

\* emitLearningEvent's INSERT runs for handler h. A row with the same
\* inputs_hash makes the statement throw and the catch block answers 500;
\* otherwise the row, created_at the present time, is stored and the
\* handler answers 201.
AssimilateInsert(h) ==
    LET row == [id            |-> h.id,
                inputs_hash   |-> h.inputs_hash,
                decision_type |-> FEEDBACK_ASSIMILATION,
                source_type   |-> "feedback_assimilation",
                created_at    |-> ToISOString(now)]
    IN  /\ h.pc = "insert"
        /\ h.endpoint = "assimilate"
        /\ IF Conflicts(h.inputs_hash)
           THEN /\ UNCHANGED learning_events
                /\ replies' = Sent([Issued(h, INSERT_EVENT) EXCEPT !.failed = INSERT_EVENT],
                                   InternalError, learning_events)
           ELSE /\ learning_events' = learning_events \cup {row}
                /\ replies' = Sent(Issued(h, INSERT_EVENT), AssimilateCreated(h.id, h.body),
                                   learning_events')
        /\ handlers' = handlers \ {h}
        /\ UNCHANGED now
        /\ UNCHANGED <<readVars, callVars>>

\* The statement handler h is suspended at.
StatementOf(h) ==
    IF h.pc = "lookup" THEN SELECT_DECISION
    ELSE IF h.pc = "select" THEN SELECT_EVENT
    ELSE INSERT_EVENT

\* StatementFails with the statement issued again after it threw: the
\* handler stays suspended at it.
StatementFailsRetried(h) ==
    /\ Len(h.stmts) < 3
    /\ handlers' = (handlers \ {h}) \cup {[Issued(h, StatementOf(h)) EXCEPT !.failed = StatementOf(h)]}
    /\ UNCHANGED <<learning_events, replies, now>>
    /\ UNCHANGED <<readVars, callVars>>

\* dbClient.query rejects for the statement handler h is suspended at (the
\* datastore is down, the statement is refused): the await throws, the
\* catch block answers 500 and the handler ends; nothing is stored.
StatementFails(h) ==
    /\ replies' = Sent([Issued(h, StatementOf(h)) EXCEPT !.failed = StatementOf(h)],
                       InternalError, learning_events)
    /\ handlers' = handlers \ {h}
    /\ UNCHANGED <<learning_events, now>>
    /\ UNCHANGED <<readVars, callVars>>

\* Time passes.
Tick ==
    /\ now < NowMax
    /\ now' = now + 1
    /\ UNCHANGED <<learning_events, handlers, replies>>
    /\ UNCHANGED <<readVars, callVars>>

----------------------------------------------------------------------------
(* SpecWrite: requests to both write endpoints, up to InFlightMax in flight *)

\* "1": a timestamp a client sends (the text of the time 1).
CLIENT_TIME == <<49>>

\* Bodies of POST /learning/learn: with and without decision_id "a" (a row
\* of decisions), with and without a timestamp.
LearnBodies ==
    [decision_id : {NULL, <<97>>}, approved : {TRUE}, confidence_adjustment : {NoNumber},
     reviewer_role : {NULL}, review_scope : {NULL}, artifact_type : {NULL}, feedback : {NULL},
     timestamp : {NULL, CLIENT_TIME}]

\* An inputs_hash a client of POST /learning/assimilate sends: the hash of
\* a learning event of the other endpoint.
CLIENT_HASH ==
    ComputeInputsHash(LearnInputs([decision_id |-> NULL, approved |-> TRUE,
                                   confidence_adjustment |-> NoNumber, reviewer_role |-> NULL,
                                   review_scope |-> NULL, artifact_type |-> NULL,
                                   feedback |-> NULL, timestamp |-> CLIENT_TIME], 0))

\* Bodies of POST /learning/assimilate: two texts, and one body with a
\* supplied inputs_hash.
AssimilateBodies ==
    [source_artifact_id : {<<97>>}, feedback_type : {MIXED}, raw_feedback : {FINE, POOR},
     feedback_source : {HUMAN}, inputs_hash : {NULL}, timestamp : {NULL}]
    \cup [source_artifact_id : {<<97>>}, feedback_type : {MIXED}, raw_feedback : {FINE},
          feedback_source : {HUMAN}, inputs_hash : {CLIENT_HASH}, timestamp : {NULL}]

\* Fewer than inFlight requests are in flight and fewer than total have arrived.
Capacity(inFlight, total) == Cardinality(handlers) < inFlight /\ Arrived < total

\* 'proceed': the recommendation of the decision row.
PROCEED == <<112, 114, 111, 99, 101, 101, 100>>

\* The decisions table of the write endpoints: one row, id 'a', confidence 0.9.
SourceDecisions == {[id |-> <<97>>, ts |-> 1, recommendation |-> PROCEED, confidence |-> 90]}

InitWrite ==
    /\ decisions = SourceDecisions
    /\ approvals = {}
    /\ HandlerInit
    /\ ConsumerIdle

NextWrite ==
    \/ Capacity(InFlightMax, ReqMax) /\ \E body \in LearnBodies : LearnArrive(body)
    \/ \E h \in handlers : LearnLookup(h)
    \/ \E h \in handlers : LearnInsert(h)
    \/ Capacity(InFlightMax, ReqMax) /\ \E body \in AssimilateBodies : AssimilateArrive(body)
    \/ \E h \in handlers : AssimilateSelect(h)
    \/ \E h \in handlers : AssimilateInsert(h)
    \/ Tick

SpecWrite == InitWrite /\ [][NextWrite]_vars

----------------------------------------------------------------------------
(* SpecSequential: POST /learning/assimilate, one request at a time *)

\* A request is submitted when no other one is in flight.
Submit ==
    /\ Capacity(1, SeqMax)
    /\ \E body \in AssimilateBodies : AssimilateArrive(body)

NextSequential ==
    \/ Submit
    \/ \E h \in handlers : AssimilateSelect(h)
    \/ \E h \in handlers : AssimilateInsert(h)
    \/ Tick

SpecSequential == InitWrite /\ [][NextSequential]_vars

----------------------------------------------------------------------------
(* What the write endpoints stored and answered *)

\* The stored learning events with inputs hash h.
EventsOf(h) == {e \in learning_events : e.inputs_hash = h}

\* The i-th response was a 201.
Is201(i) == replies[i].response.status = 201

\* C14: whatever requests to POST /learning/learn and POST
\* /learning/assimilate have run, in whatever interleaving, the table holds
\* at most one learning event for each inputs_hash.
C14_OnePerInputsHash ==
    \A e1, e2 \in learning_events : e1.inputs_hash = e2.inputs_hash => e1 = e2

\* Both endpoints have answered a request with the same inputs hash, and
\* one event is stored for it.
C14_Witness ==
    \E i, j \in 1..Len(replies) :
        /\ replies[i].endpoint = "learn"
        /\ replies[j].endpoint = "assimilate"
        /\ replies[i].inputs_hash = replies[j].inputs_hash
        /\ Cardinality(EventsOf(replies[i].inputs_hash)) = 1

\* C15: two requests to the same write endpoint with the same inputs_hash
\* receive the same id in their 201 responses.
C15_SameIdForSameHash ==
    \A i, j \in 1..Len(replies) :
        (/\ replies[i].endpoint = replies[j].endpoint
         /\ replies[i].inputs_hash = replies[j].inputs_hash
         /\ Is201(i) /\ Is201(j))
        => replies[i].response.id = replies[j].response.id

\* C16: the id of every 201 response is the id of a learning event that is
\* in the table when the response is sent, the event of that inputs hash
\* (for a duplicate submission: the one stored before).
C16_IdIsOfStoredEvent ==
    \A i \in 1..Len(replies) :
        Is201(i) => /\ replies[i].stored
                    /\ \E e \in EventsOf(replies[i].inputs_hash) : e.id = replies[i].response.id

\* C17: the same body sent to POST /learning/learn at two different
\* moments, with or without `timestamp` in it, leaves exactly one stored
\* event for it, and both responses are 201.
C17_SameBodyStoredOnce ==
    \A i, j \in 1..Len(replies) :
        (/\ i < j
         /\ replies[i].endpoint = "learn" /\ replies[j].endpoint = "learn"
         /\ replies[i].body = replies[j].body
         /\ replies[i].at # replies[j].at)
        => /\ Is201(i) /\ Is201(j)
           /\ Cardinality(EventsOf(replies[i].inputs_hash) \cup EventsOf(replies[j].inputs_hash)) = 1

\* The first response to a request with the body of the j-th response.
FirstOf(j) == CHOOSE i \in 1..j : replies[i].body = replies[j].body
                                  /\ \A k \in 1..(i - 1) : replies[k].body # replies[j].body

\* C18: when identical bodies are submitted to POST /learning/assimilate
\* one after the other, one event is stored for them and every response is
\* 201 with the id the first submission was given.
C18_SequentialSameId ==
    \A j \in 1..Len(replies) :
        /\ Is201(j)
        /\ Is201(FirstOf(j))
        /\ replies[j].response.id = replies[FirstOf(j)].response.id
        /\ EventsOf(replies[j].inputs_hash) =
              {e \in learning_events : e.id = replies[FirstOf(j)].response.id}
        /\ Cardinality(EventsOf(replies[j].inputs_hash)) = 1

\* SeqMax identical submissions have been answered.
C18_Witness ==
    /\ Len(replies) = SeqMax
    /\ \A j \in 1..Len(replies) : replies[j].body = replies[1].body
    /\ replies[SeqMax].found

\* C19: when the lookups of two concurrent identical POST
\* /learning/assimilate requests both find no row, both requests are
\* answered 201 with the id of the one stored event, and neither 500.
C19_ConflictIsSuccess ==
    \A i, j \in 1..Len(replies) :
        (/\ i # j
         /\ replies[i].endpoint = "assimilate" /\ replies[j].endpoint = "assimilate"
         /\ replies[i].body = replies[j].body
         /\ ~replies[i].found /\ ~replies[j].found)
        => /\ Is201(i) /\ Is201(j)
           /\ replies[i].response.id = replies[j].response.id
           /\ \E e \in EventsOf(replies[i].inputs_hash) : e.id = replies[i].response.id

\* C20: no step updates or deletes a learning event: every stored event is
\* stored, with the same fields, in the next state.
C20_AppendOnly == [][learning_events \subseteq learning_events']_vars

\* A submission with the hash of a stored event has been answered, and the
\* event stored is the earlier one, created_at included.
C20_Witness ==
    \E i, j \in 1..Len(replies) :
        /\ i < j
        /\ replies[i].inputs_hash = replies[j].inputs_hash
        /\ replies[i].at # replies[j].at
        /\ Is201(i)
        /\ \E e \in learning_events : /\ e.id = replies[i].response.id
                                      /\ e.inputs_hash = replies[i].inputs_hash
                                      /\ Cardinality(EventsOf(e.inputs_hash)) = 1

(***************************************************************************)
(* The cursor round trip: parseCursor(buildEventId(type, id, ts)).         *)
(***************************************************************************)

\* The longest row id of the round trip.
IdLenMax == 3

\* The strings of at most n code units over an alphabet.
Strings(alphabet, n) == UNION {[1..k -> alphabet] : k \in 0..n}

\* Type tags: the four of the feed, an unknown one and the empty one; none
\* holds a colon.
TypeTags == ValidTypes \cup {FOO, <<>>}

\* Row ids over a letter, a colon and a digit.
CursorIds == Strings({97, 58, 49}, IdLenMax)

\* Millisecond timestamps: before the epoch, the epoch, one and several digits.
CursorTimestamps == {-1, 0, 7, 1700000000}

\* Empty tables and an idle service: the state in which a pure function is
\* called on its own.
NoTables ==
    /\ decisions = {} /\ approvals = {}
    /\ ServiceIdle
    /\ ConsumerIdle

InitRoundTrip ==
    /\ NoTables
    /\ \E type \in TypeTags, id \in CursorIds, ts \in CursorTimestamps :
           call = [f |-> "parseCursor", args |-> [type |-> type, id |-> id, timestamp |-> ts],
                   done |-> FALSE]
    /\ ret = NoCursor

\* parseCursor(buildEventId(type, id, timestamp))
RoundTrip ==
    /\ call.f = "parseCursor" /\ ~call.done
    /\ ret' = ParseCursor(BuildEventId(call.args.type, call.args.id, call.args.timestamp))
    /\ call' = [call EXCEPT !.done = TRUE]
    /\ UNCHANGED <<readVars, writeVars>>

NextRoundTrip == RoundTrip

SpecRoundTrip == InitRoundTrip /\ [][NextRoundTrip]_vars

\* C30: for a type tag without a colon, any row id and any millisecond
\* timestamp, parseCursor(buildEventId(type, id, ts)) is not null and holds
\* exactly that type, id and timestamp.
C30_RoundTrip ==
    (call.f = "parseCursor" /\ call.done)
    => /\ ret.ok
       /\ ret.type = call.args.type
       /\ ret.id = call.args.id
       /\ ret.timestamp = call.args.timestamp

\* The round trip of an id that holds two colons, one of them its last code
\* unit, under a negative timestamp.
C30_Witness ==
    /\ call.f = "parseCursor" /\ call.done
    /\ call.args.id = <<58, 97, 58>>
    /\ call.args.timestamp < 0
    /\ ret.ok /\ ret.id = call.args.id

(***************************************************************************)
(* normalizeApprovalSignal on its own.                                     *)
(***************************************************************************)

\* confidence_adjustment: absent, or a number of [-1, 1] (z.number().min(-1).max(1)).
Adjustments == {NoNumber} \cup {[given |-> TRUE, n |-> n] : n \in -Unit..Unit}

InitNormalize ==
    /\ NoTables
    /\ \E approved \in BOOLEAN, adj \in Adjustments :
           call = [f |-> "normalizeApprovalSignal",
                   args |-> [approved |-> approved, confidence_adjustment |-> adj],
                   done |-> FALSE]
    /\ ret = 0

\* normalizeApprovalSignal(approved, confidence_adjustment)
Normalize ==
    /\ call.f = "normalizeApprovalSignal" /\ ~call.done
    /\ ret' = NormalizeApprovalSignal(call.args.approved, call.args.confidence_adjustment)
    /\ call' = [call EXCEPT !.done = TRUE]
    /\ UNCHANGED <<readVars, writeVars>>

NextNormalize == Normalize

SpecNormalize == InitNormalize /\ [][NextNormalize]_vars

\* a * b for fixed-point numbers whose product is a whole number of hundredths.
Times(a, b) == (a * b) \div Unit

\* C24: normalizeApprovalSignal returns +1.0 (approved) or -1.0 (rejected)
\* when the adjustment is absent, and base * (1 + adjustment) clamped to
\* [-1, 1] when it is given in [-1, 1]; approved with -1 gives 0, approved
\* with 1 gives 1; the result is always in [-1, 1].
C24_NormalizedSignal ==
    (call.f = "normalizeApprovalSignal" /\ call.done)
    => LET approved == call.args.approved
           adj      == call.args.confidence_adjustment
           base     == IF approved THEN Unit ELSE -Unit
       IN  /\ ~adj.given => ret = base
           /\ adj.given =>
                  ret = (IF Times(base, Unit + adj.n) > Unit THEN Unit
                         ELSE IF Times(base, Unit + adj.n) < -Unit THEN -Unit
                         ELSE Times(base, Unit + adj.n))
           /\ (approved /\ adj.given /\ adj.n = -Unit) => ret = 0
           /\ (approved /\ adj.given /\ adj.n = Unit) => ret = Unit
           /\ -Unit <= ret /\ ret <= Unit

\* An approval adjusted by +1: base * (1 + 1) = 2 is clamped to 1.
C24_Witness ==
    /\ call.f = "normalizeApprovalSignal" /\ call.done
    /\ call.args.approved
    /\ call.args.confidence_adjustment = [given |-> TRUE, n |-> Unit]
    /\ ret = Unit

(***************************************************************************)
(* The signal normalizer of the feedback handler: parseFeedbackDimensions  *)
(* and deriveSentimentFromFeedbackType.                                    *)
(***************************************************************************)

\* The feedback types of the base-sentiment table.
APPROVAL == <<97, 112, 112, 114, 111, 118, 97, 108>>
REJECTION == <<114, 101, 106, 101, 99, 116, 105, 111, 110>>
SUGGESTION == <<115, 117, 103, 103, 101, 115, 116, 105, 111, 110>>
CRITIQUE == <<99, 114, 105, 116, 105, 113, 117, 101>>
RATING == <<114, 97, 116, 105, 110, 103>>

\* positiveKeywords, in the order of the list.
EXCELLENT == <<101, 120, 99, 101, 108, 108, 101, 110, 116>>
GREAT == <<103, 114, 101, 97, 116>>
GOOD == <<103, 111, 111, 100>>
CLEAR == <<99, 108, 101, 97, 114>>
ACCURATE == <<97, 99, 99, 117, 114, 97, 116, 101>>
COMPLETE == <<99, 111, 109, 112, 108, 101, 116, 101>>
WELL_DONE == <<119, 101, 108, 108, 45, 100, 111, 110, 101>>
PositiveKeywords == <<EXCELLENT, GREAT, GOOD, CLEAR, ACCURATE, COMPLETE, WELL_DONE>>

\* negativeKeywords, in the order of the list ('poor' is POOR).
BAD == <<98, 97, 100>>
UNCLEAR == <<117, 110, 99, 108, 101, 97, 114>>
INACCURATE == <<105, 110, 97, 99, 99, 117, 114, 97, 116, 101>>
INCOMPLETE == <<105, 110, 99, 111, 109, 112, 108, 101, 116, 101>>
CONFUSING == <<99, 111, 110, 102, 117, 115, 105, 110, 103>>
MISSING == <<109, 105, 115, 115, 105, 110, 103>>
NegativeKeywords == <<POOR, BAD, UNCLEAR, INACCURATE, INCOMPLETE, CONFUSING, MISSING>>

\* s.includes(t): t occurs in s as a run of consecutive code units.
Includes(s, t) == \E i \in 0..(Len(s) - Len(t)) : SubSeq(s, i + 1, i + Len(t)) = t

\* keywords.filter(kw => lowerText.includes(kw)).length
CountIncluded(keywords, lowerText) ==
    Cardinality({i \in 1..Len(keywords) : Includes(lowerText, keywords[i])})

\* The switch over feedbackType: the base sentiment, 0 for a type without a case.
BaseSentiment(feedbackType) ==
    IF feedbackType = APPROVAL THEN 80
    ELSE IF feedbackType = REJECTION THEN -80
    ELSE IF feedbackType = SUGGESTION THEN 30
    ELSE IF feedbackType = CRITIQUE THEN -30
    ELSE 0

\* DeriveSentimentFromFeedbackType without Math.max(-1, Math.min(1, ...)).
DeriveSentimentUnclamped(feedbackType, rawFeedback) ==
    LET lowerText     == ToLowerCase(rawFeedback)
        positiveCount == CountIncluded(PositiveKeywords, lowerText)
        negativeCount == CountIncluded(NegativeKeywords, lowerText)
        keywordAdjustment == (positiveCount - negativeCount) * 20
    IN  BaseSentiment(feedbackType) + keywordAdjustment

\* deriveSentimentFromFeedbackType
DeriveSentimentFromFeedbackType(feedbackType, rawFeedback) ==
    LET lowerText     == ToLowerCase(rawFeedback)
        positiveCount == CountIncluded(PositiveKeywords, lowerText)
        negativeCount == CountIncluded(NegativeKeywords, lowerText)
        keywordAdjustment == (positiveCount - negativeCount) * 20
    IN  Clamp(BaseSentiment(feedbackType) + keywordAdjustment, -Unit, Unit)

\* The four dimensions, in the order the signals are pushed.
Dimensions == <<"quality", "clarity", "accuracy", "completeness">>

\* Absent structuredRatings; a ratings object holds an optional number per
\* dimension.
NoRatings == [present |-> FALSE, of |-> [d \in {"quality", "clarity", "accuracy", "completeness"} |-> NoNumber]]

\* The sub-sequence of the dimensions that satisfy keep, in order.
RECURSIVE Pushed(_, _, _)
Pushed(ratings, dims, truthy) ==
    IF Len(dims) = 0 THEN <<>>
    ELSE LET r == ratings.of[dims[1]]
             keep == r.given /\ (truthy => r.n # 0)
         IN  (IF keep THEN <<[dimension |-> dims[1], value |-> r.n, confidence |-> Unit]>> ELSE <<>>)
             \o Pushed(ratings, Tail(dims), truthy)

\* The four derived signals: one value at confidence 0.6.
DerivedSignals(sentimentValue) ==
    [i \in 1..Len(Dimensions) |-> [dimension |-> Dimensions[i], value |-> sentimentValue, confidence |-> 60]]

\* ParseFeedbackDimensions with `if (structuredRatings.quality)` for
\* `!== undefined`: a rating of 0 is skipped.
ParseFeedbackDimensionsTruthy(rawFeedback, feedbackType, structuredRatings) ==
    LET signals == IF structuredRatings.present THEN Pushed(structuredRatings, Dimensions, TRUE) ELSE <<>>
    IN  IF Len(signals) = 0
        THEN DerivedSignals(DeriveSentimentFromFeedbackType(feedbackType, rawFeedback))
        ELSE signals

\* parseFeedbackDimensions
ParseFeedbackDimensions(rawFeedback, feedbackType, structuredRatings) ==
    LET signals == IF structuredRatings.present THEN Pushed(structuredRatings, Dimensions, FALSE) ELSE <<>>
    IN  IF Len(signals) = 0
        THEN DerivedSignals(DeriveSentimentFromFeedbackType(feedbackType, rawFeedback))
        ELSE signals

\* parseFeedbackDimensions(rawFeedback, feedbackType, structuredRatings)
ParseDimensions ==
    /\ call.f = "parseFeedbackDimensions" /\ ~call.done
    /\ ret' = ParseFeedbackDimensions(call.args.rawFeedback, call.args.feedbackType,
                                       call.args.structuredRatings)
    /\ call' = [call EXCEPT !.done = TRUE]
    /\ UNCHANGED <<readVars, writeVars>>

\* A rating of a dimension: absent, or one of -1, 0, 0.7.
RatingValues == {NoNumber} \cup {[given |-> TRUE, n |-> n] : n \in {-Unit, 0, 70}}

\* The ratings objects, the empty one among them.
RatingsObjects ==
    {[present |-> TRUE, of |-> of] : of \in [{"quality", "clarity", "accuracy", "completeness"} -> RatingValues]}

InitRatings ==
    /\ NoTables
    /\ \E ratings \in RatingsObjects, rawFeedback \in {FINE, GOOD} :
           call = [f |-> "parseFeedbackDimensions",
                   args |-> [words |-> <<rawFeedback>>, rawFeedback |-> rawFeedback,
                             feedbackType |-> APPROVAL, structuredRatings |-> ratings],
                   done |-> FALSE]
    /\ ret = <<>>

NextRatings == ParseDimensions

SpecRatings == InitRatings /\ [][NextRatings]_vars

\* The signals of the result that carry dimension d.
SignalsOf(d) == {i \in 1..Len(ret) : ret[i].dimension = d}

\* Exactly one signal per provided dimension, with the provided value at
\* confidence 1.0, and none for a dimension that was not provided.
OnePerProvided(ratings) ==
    \A d \in DOMAIN ratings.of :
        IF ratings.of[d].given
        THEN \E i \in 1..Len(ret) : /\ SignalsOf(d) = {i}
                                     /\ ret[i].value = ratings.of[d].n
                                     /\ ret[i].confidence = Unit
        ELSE SignalsOf(d) = {}

ParsedWithRatings ==
    call.f = "parseFeedbackDimensions" /\ call.done /\ call.args.structuredRatings.present

\* C26 as stated: with a ratings object present, the result holds exactly
\* one signal per provided dimension (value as provided, confidence 1.0) and
\* no signal for a dimension not provided, also when no dimension is provided.
C26_OnePerProvidedDimension ==
    ParsedWithRatings => OnePerProvided(call.args.structuredRatings)

\* C26 amended: with a ratings object that provides at least one dimension,
\* the result holds exactly one signal per provided dimension (value as
\* provided, confidence 1.0) and none for the others; with a ratings object
\* that provides no dimension, the result is the four derived signals at
\* confidence 0.6, as without a ratings object.
C26_OnePerProvidedIfAny ==
    ParsedWithRatings
    => LET ratings == call.args.structuredRatings
       IN  IF \E d \in DOMAIN ratings.of : ratings.of[d].given
           THEN OnePerProvided(ratings)
           ELSE /\ Len(ret) = 4
                /\ \A d \in DOMAIN ratings.of : Cardinality(SignalsOf(d)) = 1
                /\ \A i \in 1..Len(ret) : ret[i].confidence = 60 /\ ret[i].value = ret[1].value

\* Ratings that provide quality as 0 and accuracy, and nothing else: two
\* signals, the first one with value 0.
C26_Witness ==
    /\ ParsedWithRatings
    /\ call.args.structuredRatings.of["quality"] = [given |-> TRUE, n |-> 0]
    /\ call.args.structuredRatings.of["accuracy"].given
    /\ ~call.args.structuredRatings.of["clarity"].given
    /\ ~call.args.structuredRatings.of["completeness"].given
    /\ Len(ret) = 2 /\ ret[1].dimension = "quality" /\ ret[1].value = 0

\* 'other': a feedback type without a case in the switch.
OTHER_TYPE == <<111, 116, 104, 101, 114>>
SPACE == <<32>>
GREAT_CAPITAL == <<71, 114, 101, 97, 116>>

\* The most words of a feedback text.
WordsMax == 4

\* Words of feedback texts: keywords of both lists, one of them capitalised,
\* one that holds a keyword of the other list ('unclear').
Vocabulary == {GREAT_CAPITAL, CLEAR, ACCURATE, UNCLEAR, MISSING, BAD}

FeedbackTypes == {APPROVAL, REJECTION, SUGGESTION, CRITIQUE, RATING, OTHER_TYPE}

InitSentiment ==
    /\ NoTables
    /\ \E words \in Strings(Vocabulary, WordsMax), feedbackType \in FeedbackTypes :
           call = [f |-> "parseFeedbackDimensions",
                   args |-> [words |-> words, rawFeedback |-> Join(words, SPACE),
                             feedbackType |-> feedbackType, structuredRatings |-> NoRatings],
                   done |-> FALSE]
    /\ ret = <<>>

NextSentiment == ParseDimensions

SpecSentiment == InitSentiment /\ [][NextSentiment]_vars

\* The keywords of the two lists that a word of the vocabulary holds.
PositiveIn(word) ==
    IF word = GREAT_CAPITAL THEN {GREAT}
    ELSE IF word \in {CLEAR, UNCLEAR} THEN {CLEAR}
    ELSE IF word = ACCURATE THEN {ACCURATE}
    ELSE {}

NegativeIn(word) == IF word \in {UNCLEAR, MISSING, BAD} THEN {word} ELSE {}

\* The number of distinct keywords of a list that occur in the text.
PositiveKeywordCount(words) == Cardinality(UNION {PositiveIn(words[i]) : i \in 1..Len(words)})
NegativeKeywordCount(words) == Cardinality(UNION {NegativeIn(words[i]) : i \in 1..Len(words)})

\* The base sentiment of a feedback type, in hundredths.
BaseOf(feedbackType) ==
    CASE feedbackType = APPROVAL   -> 80
      [] feedbackType = REJECTION  -> -80
      [] feedbackType = SUGGESTION -> 30
      [] feedbackType = CRITIQUE   -> -30
      [] feedbackType = RATING     -> 0
      [] OTHER                     -> 0

ParsedWithoutRatings ==
    call.f = "parseFeedbackDimensions" /\ call.done /\ ~call.args.structuredRatings.present

\* C27: without structured ratings the result is exactly four signals, one
\* per dimension quality, clarity, accuracy, completeness, at confidence
\* 0.6, all with the value clamp(base + 0.2 * (positive - negative), -1, 1),
\* where base is 0.8, -0.8, 0.3, -0.3, 0, 0 for approval, rejection,
\* suggestion, critique, rating and any other type, and positive and
\* negative count the keywords of each list that occur in the text; for a
\* suggestion with three positive and one negative keyword the value is 0.7.
C27_DerivedSentiment ==
    ParsedWithoutRatings
    => LET positive == PositiveKeywordCount(call.args.words)
           negative == NegativeKeywordCount(call.args.words)
           raw      == BaseOf(call.args.feedbackType) + 20 * (positive - negative)
           expected == IF raw > Unit THEN Unit ELSE IF raw < -Unit THEN -Unit ELSE raw
       IN  /\ Len(ret) = 4
           /\ \A d \in {"quality", "clarity", "accuracy", "completeness"} : Cardinality(SignalsOf(d)) = 1
           /\ \A i \in 1..Len(ret) : ret[i].value = expected /\ ret[i].confidence = 60
           /\ (call.args.feedbackType = SUGGESTION /\ positive = 3 /\ negative = 1)
                  => \A i \in 1..Len(ret) : ret[i].value = 70

\* A suggestion whose text holds three positive keywords and one negative
\* keyword: four signals of value 0.7.
C27_Witness ==
    /\ ParsedWithoutRatings
    /\ call.args.feedbackType = SUGGESTION
    /\ call.args.words = <<GREAT_CAPITAL, CLEAR, ACCURATE, MISSING>>
    /\ Len(ret) = 4 /\ ret[1].value = 70 /\ ret[4].value = 70

(***************************************************************************)
(* computeInputsHash on its own: the approval variant and the feedback     *)
(* variant, on two objects with a nested object.                           *)
(***************************************************************************)

\* Property names 'a', 'b' (top level) and 'x', 'y' (nested).
KEY_A == <<97>>
KEY_B == <<98>>
KEY_X == <<120>>
KEY_Y == <<121>>

\* The largest number held by a property.
ValueMax == 2

HashedNumbers == {JNumber(n * Unit) : n \in 1..ValueMax}

\* Nested objects: one property named x, y or (as a top-level property is) a,
\* or the two properties x and y in either insertion order.
NestedObjects ==
    {<< <<k, v>> >> : k \in {KEY_X, KEY_Y, KEY_A}, v \in HashedNumbers}
    \cup {<< <<k[1], v1>>, <<k[2], v2>> >> :
              k \in {<<KEY_X, KEY_Y>>, <<KEY_Y, KEY_X>>}, v1 \in HashedNumbers, v2 \in HashedNumbers}

\* Objects {a: nested, b: string}, in either insertion order.
HashedObjects ==
    UNION {{<< <<KEY_A, JObject(o)>>, <<KEY_B, JString(s)>> >>,
            << <<KEY_B, JString(s)>>, <<KEY_A, JObject(o)>> >>} : o \in NestedObjects, s \in {FINE, POOR}}

InitHash ==
    /\ NoTables
    /\ \E variant \in {"approval", "feedback"}, first \in HashedObjects, second \in HashedObjects :
           call = [f |-> "computeInputsHash",
                   args |-> [variant |-> variant, first |-> first, second |-> second],
                   done |-> FALSE]
    /\ ret = <<>>

\* computeInputsHash of approvalLearning on the first object, on the second
\* and on the first again.
HashApproval ==
    /\ call.f = "computeInputsHash" /\ call.args.variant = "approval" /\ ~call.done
    /\ ret' = [first  |-> ComputeInputsHash(call.args.first),
               second |-> ComputeInputsHash(call.args.second),
               again  |-> ComputeInputsHash(call.args.first)]
    /\ call' = [call EXCEPT !.done = TRUE]
    /\ UNCHANGED <<readVars, writeVars>>

\* computeInputsHash of feedbackAssimilation, likewise.
HashFeedback ==
    /\ call.f = "computeInputsHash" /\ call.args.variant = "feedback" /\ ~call.done
    /\ ret' = [first  |-> ComputeInputsHashWithReplacer(call.args.first),
               second |-> ComputeInputsHashWithReplacer(call.args.second),
               again  |-> ComputeInputsHashWithReplacer(call.args.first)]
    /\ call' = [call EXCEPT !.done = TRUE]
    /\ UNCHANGED <<readVars, writeVars>>

NextHash == HashApproval \/ HashFeedback

SpecHash == InitHash /\ [][NextHash]_vars

\* The property names of an object.
KeysOf(obj) == {obj[i][1] : i \in 1..Len(obj)}

\* Two objects hold the same properties with the same values, nested objects
\* compared the same way, whatever the insertion order.
RECURSIVE StructurallyEqual(_, _)
StructurallyEqual(o1, o2) ==
    /\ KeysOf(o1) = KeysOf(o2)
    /\ \A k \in KeysOf(o1) :
           LET v1 == ValueOf(o1, k)
               v2 == ValueOf(o2, k)
           IN  IF v1.t = "object" /\ v2.t = "object" THEN StructurallyEqual(v1.o, v2.o)
               ELSE v1.t = v2.t /\ v1.s = v2.s /\ v1.b = v2.b /\ v1.n = v2.n

\* Two objects hold the same property names at every level.
RECURSIVE SameShape(_, _)
SameShape(o1, o2) ==
    /\ KeysOf(o1) = KeysOf(o2)
    /\ \A k \in KeysOf(o1) :
           LET v1 == ValueOf(o1, k)
               v2 == ValueOf(o2, k)
           IN  /\ v1.t = v2.t
               /\ v1.t = "object" => SameShape(v1.o, v2.o)

Hashed == call.f = "computeInputsHash" /\ call.done

\* C28: either variant of computeInputsHash gives one digest to two
\* structurally equal objects, whatever the insertion order of their
\* properties at the top level and inside nested objects, and the same
\* digest when the same object is hashed again.
C28_OrderInsensitive ==
    Hashed
    => /\ StructurallyEqual(call.args.first, call.args.second) => ret.first = ret.second
       /\ ret.again = ret.first

\* C29: either variant of computeInputsHash gives different digests to two
\* objects of the same shape that differ in a value, a value of a nested
\* object included (the digest being injective on the serialised text).
C29_ValueSensitive ==
    Hashed
    => ((/\ SameShape(call.args.first, call.args.second)
         /\ ~StructurallyEqual(call.args.first, call.args.second))
        => ret.first # ret.second)

(***************************************************************************)
(* SpecLearn: POST /learning/learn, one request at a time, with and        *)
(* without a source decision.                                              *)
(***************************************************************************)

\* The number of requests of a behaviour.
LearnReqMax == 1

\* 'lead': a reviewer role.
LEAD == <<108, 101, 97, 100>>

\* The decisions table: row 'a', and row 'c' whose recommendation is empty
\* and whose confidence is 0. No row has id 'b'.
LearnDecisions ==
    SourceDecisions \cup {[id |-> <<99>>, ts |-> 2, recommendation |-> <<>>, confidence |-> 0]}

\* Valid bodies: decision_id absent, of a row, or of no row; approval and
\* rejection; adjustment absent, -1, -0.5, -0.05; reviewer_role absent,
\* empty, 'unknown', 'lead'; with and without feedback.
LearnRequests ==
    [decision_id : {NULL, <<97>>, <<98>>, <<99>>}, approved : BOOLEAN,
     confidence_adjustment : {NoNumber} \cup {[given |-> TRUE, n |-> n] : n \in {-Unit, -50, -5}},
     reviewer_role : {NULL, <<>>, UNKNOWN, LEAD}, review_scope : {NULL}, artifact_type : {NULL},
     feedback : {NULL, FINE}, timestamp : {NULL}]

InitLearn ==
    /\ decisions = LearnDecisions
    /\ approvals = {}
    /\ HandlerInit
    /\ ConsumerIdle

NextLearn ==
    \/ Capacity(1, LearnReqMax) /\ \E body \in LearnRequests : LearnArrive(body)
    \/ \E h \in handlers : LearnLookup(h)
    \/ \E h \in handlers : LearnInsert(h)

SpecLearn == InitLearn /\ [][NextLearn]_vars

\* The stored learning events with the id of reply i.
StoredOf(i) == {e \in learning_events : e.id = replies[i].response.id}

\* Reply i answers a request whose inputs hash no earlier request had.
FirstOfItsHash(i) == \A j \in 1..(i - 1) : replies[j].inputs_hash # replies[i].inputs_hash

\* A reviewer role is given (a non-empty string) and is not 'unknown'.
RoleKnown(body) ==
    body.reviewer_role # NULL /\ body.reviewer_role # <<>> /\ body.reviewer_role # UNKNOWN

\* Reply i answers a POST /learning/learn whose decision_id names no row.
SourceMissing(i) ==
    /\ replies[i].endpoint = "learn"
    /\ replies[i].body.decision_id # NULL
    /\ ~replies[i].found

\* The event the request of reply i would have stored had its decision_id
\* named the row d.
EventIfFound(i, d) ==
    LearnEvent([id |-> replies[i].response.id, inputs_hash |-> replies[i].inputs_hash,
                body |-> replies[i].body, at |-> replies[i].at,
                source |-> [found |-> TRUE, recommendation |-> d.recommendation,
                            confidence |-> [given |-> TRUE, n |-> d.confidence]]])

\* C23: a POST /learning/learn whose decision_id names no decision row is
\* answered 201 and its event is stored (when no earlier request had its
\* inputs hash); the event differs from the one stored had the decision
\* been found only in has_source_context (false), in source_recommendation
\* and source_confidence (null), and in the confidence, which lacks the
\* +0.10 boost.
C23_MissingSourceStillStored ==
    \A i \in 1..Len(replies) :
        SourceMissing(i)
        => /\ replies[i].response.status = 201
           /\ FirstOfItsHash(i) => StoredOf(i) # {}
           /\ \A e \in StoredOf(i) :
                 /\ ~e.constraints_applied.has_source_context
                 /\ e.outputs.source_recommendation = NULL
                 /\ e.outputs.source_confidence = NoNumber
                 /\ LET s == e.outputs.signal_strength
                    IN  e.confidence = (IF RoleKnown(replies[i].body) THEN Min(Unit, s + 5) ELSE s)
                 /\ \A d \in decisions :
                       LET f == EventIfFound(i, d)
                       IN  /\ [e EXCEPT !.constraints_applied = 0, !.outputs = 0, !.confidence = 0]
                              = [f EXCEPT !.constraints_applied = 0, !.outputs = 0, !.confidence = 0]
                           /\ [e.constraints_applied EXCEPT !.has_source_context = TRUE]
                              = f.constraints_applied
                           /\ [e.outputs EXCEPT !.source_recommendation = f.outputs.source_recommendation,
                                                !.source_confidence = f.outputs.source_confidence]
                              = f.outputs

\* A rejection with feedback, signal 0.5, reviewer 'lead' and decision_id
\* 'b' was answered 201 and its event is stored with confidence 0.55.
C23_Witness ==
    \E i \in 1..Len(replies) :
        /\ SourceMissing(i)
        /\ replies[i].body.decision_id = <<98>>
        /\ ~replies[i].body.approved
        /\ replies[i].body.reviewer_role = LEAD
        /\ replies[i].body.feedback = FINE
        /\ replies[i].response.status = 201
        /\ \E e \in StoredOf(i) : e.confidence = 55 /\ e.outputs.normalized_signal = -50

\* C25: the confidence POST /learning/learn returns, and stores, is
\* |signal|, plus 0.10 capped at 1.0 if the source decision was found, then
\* plus 0.05 capped at 1.0 if a reviewer role is given and is not
\* 'unknown'; it lies in [0, 1].
C25_Confidence ==
    \A i \in 1..Len(replies) :
        (replies[i].endpoint = "learn" /\ replies[i].response.status = 201)
        => LET r        == replies[i]
               s        == Abs(r.response.normalized_signal)
               withCtx  == IF r.found THEN (IF s + 10 > Unit THEN Unit ELSE s + 10) ELSE s
               expected == IF RoleKnown(r.body)
                           THEN (IF withCtx + 5 > Unit THEN Unit ELSE withCtx + 5)
                           ELSE withCtx
           IN  /\ r.response.confidence = expected
               /\ r.response.confidence >= 0 /\ r.response.confidence <= Unit
               /\ \A e \in StoredOf(i) : e.confidence = r.response.confidence

\* An approval of signal 0.95 with a found decision and reviewer 'lead':
\* 0.95 + 0.10 is capped at 1.0, and 1.0 + 0.05 again.
C25_Witness ==
    \E i \in 1..Len(replies) :
        /\ replies[i].endpoint = "learn"
        /\ replies[i].found
        /\ replies[i].body.reviewer_role = LEAD
        /\ replies[i].response.normalized_signal = 95
        /\ replies[i].response.confidence = Unit
        /\ \E e \in StoredOf(i) : e.confidence = Unit

(***************************************************************************)
(* SpecErrors: both write endpoints with bodies the schemas reject and     *)
(* with datastore statements that fail.                                    *)
(***************************************************************************)

\* Bodies of POST /learning/learn the schema rejects: an empty decision_id,
\* a confidence_adjustment of 1.5.
InvalidLearnBodies ==
    {[decision_id |-> <<>>, approved |-> TRUE, confidence_adjustment |-> NoNumber,
      reviewer_role |-> NULL, review_scope |-> NULL, artifact_type |-> NULL, feedback |-> NULL,
      timestamp |-> NULL],
     [decision_id |-> <<97>>, approved |-> TRUE,
      confidence_adjustment |-> [given |-> TRUE, n |-> 150],
      reviewer_role |-> NULL, review_scope |-> NULL, artifact_type |-> NULL, feedback |-> NULL,
      timestamp |-> NULL]}

\* Bodies of POST /learning/assimilate the schema rejects: an empty
\* source_artifact_id, a feedback_type outside the enum, an empty raw_feedback.
InvalidAssimilateBodies ==
    {[source_artifact_id |-> <<>>, feedback_type |-> MIXED, raw_feedback |-> FINE,
      feedback_source |-> HUMAN, inputs_hash |-> NULL, timestamp |-> NULL],
     [source_artifact_id |-> <<97>>, feedback_type |-> FOO, raw_feedback |-> FINE,
      feedback_source |-> HUMAN, inputs_hash |-> NULL, timestamp |-> NULL],
     [source_artifact_id |-> <<97>>, feedback_type |-> MIXED, raw_feedback |-> <<>>,
      feedback_source |-> HUMAN, inputs_hash |-> NULL, timestamp |-> NULL]}

\* The bodies of the requests: the rejected ones, and for each endpoint a
\* valid one (learn with the decision_id of a row).
ErrorLearnBodies ==
    InvalidLearnBodies
    \cup [decision_id : {<<97>>}, approved : {TRUE}, confidence_adjustment : {NoNumber},
          reviewer_role : {NULL}, review_scope : {NULL}, artifact_type : {NULL},
          feedback : {NULL}, timestamp : {NULL}]

ErrorAssimilateBodies ==
    InvalidAssimilateBodies
    \cup [source_artifact_id : {<<97>>}, feedback_type : {MIXED}, raw_feedback : {FINE},
          feedback_source : {HUMAN}, inputs_hash : {NULL}, timestamp : {NULL}]

NextErrors ==
    \/ Capacity(InFlightMax, ReqMax) /\ \E body \in ErrorLearnBodies : LearnArrive(body)
    \/ \E h \in handlers : LearnLookup(h)
    \/ \E h \in handlers : LearnInsert(h)
    \/ Capacity(InFlightMax, ReqMax) /\ \E body \in ErrorAssimilateBodies : AssimilateArrive(body)
    \/ \E h \in handlers : AssimilateSelect(h)
    \/ \E h \in handlers : AssimilateInsert(h)
    \/ \E h \in handlers : StatementFails(h)

SpecErrors == InitWrite /\ [][NextErrors]_vars

\* The bodies that fail schema validation.
InvalidBodies == InvalidLearnBodies \cup InvalidAssimilateBodies

\* The step sends a response.
Responds == Len(replies') = Len(replies) + 1

\* The response the step sends, as logged.
LastSent == replies'[Len(replies')]

\* A step that admits a request with an invalid body to a handler, or that
\* answers one otherwise than by 400 validation_error with no statement
\* issued and the table as it was, does not occur.
RejectsInvalid ==
    /\ \A h \in handlers' \ handlers : h.body \notin InvalidBodies
    /\ (Responds /\ LastSent.body \in InvalidBodies)
          => /\ LastSent.response = ValidationError
             /\ LastSent.stmts = <<>>
             /\ learning_events' = learning_events

\* C21: a write request (learn or assimilate) whose body fails schema
\* validation is answered 400 validation_error without any datastore
\* statement issued for it, and leaves the stored learning events unchanged.
C21_InvalidIsRejected == [][RejectsInvalid]_vars

\* An invalid request was answered 400 while a learning event was stored.
C21_Witness ==
    \E i \in 1..Len(replies) :
        /\ replies[i].body \in InvalidBodies
        /\ replies[i].response = ValidationError
        /\ replies[i].stmts = <<>>
        /\ learning_events # {}

\* The INSERT statements among the statements of a response.
Inserts(r) == {k \in 1..Len(r.stmts) : r.stmts[k] = INSERT_EVENT}

\* A step in which a statement fails answers 500 internal_error, stores
\* nothing, and ends the handler (no handler goes on after a failed
\* statement); the failed statement is the last one the request issued, no
\* INSERT of the request succeeded, and no request issues more than one INSERT.
AbortsOnFailure ==
    /\ \A h \in handlers' : h.failed = "none"
    /\ Responds
          => /\ Cardinality(Inserts(LastSent)) <= 1
             /\ LastSent.failed # "none"
                   => /\ LastSent.response = InternalError
                      /\ learning_events' = learning_events
                      /\ LastSent.stmts[Len(LastSent.stmts)] = LastSent.failed
                      /\ \A k \in Inserts(LastSent) : k = Len(LastSent.stmts)
                      /\ ~LastSent.stored

\* C22: when a datastore statement fails during a write request, the
\* request is answered 500 internal_error, the failed statement is not
\* issued again (a request issues at most one INSERT), and no learning
\* event of that request is stored.
C22_FailureAborts == [][AbortsOnFailure]_vars

\* The INSERT of a POST /learning/learn failed after its lookup succeeded,
\* and the table is empty.
C22_Witness ==
    \E i \in 1..Len(replies) :
        /\ replies[i].endpoint = "learn"
        /\ replies[i].stmts = <<SELECT_DECISION, INSERT_EVENT>>
        /\ replies[i].failed = INSERT_EVENT
        /\ replies[i].response = InternalError
        /\ learning_events = {}

(***************************************************************************)
(* The 201 response and the store.                                         *)
(***************************************************************************)

\* C31: a write handler sends 201 only after its write statement has
\* completed: in every state, for every request answered 201, a learning
\* event with that request's inputs hash is stored.
C31_CreatedAfterWrite ==
    \A i \in 1..Len(replies) :
        Is201(i) => EventsOf(replies[i].inputs_hash) # {}

\* Both endpoints have answered 201, POST /learning/learn after its INSERT
\* and POST /learning/assimilate after an INSERT of its own, and the events
\* of both are stored.
C31_Witness ==
    \E i, j \in 1..Len(replies) :
        /\ replies[i].endpoint = "learn" /\ replies[j].endpoint = "assimilate"
        /\ Is201(i) /\ Is201(j)
        /\ replies[j].stmts = <<SELECT_EVENT, INSERT_EVENT>>
        /\ EventsOf(replies[i].inputs_hash) # {}
        /\ EventsOf(replies[j].inputs_hash) # {}

(***************************************************************************)
(* SpecSupplied: POST /learning/assimilate, one request at a time, with    *)
(* and without an inputs_hash of the client's.                             *)
(***************************************************************************)

\* 'h1': an inputs_hash a client supplies.
SUPPLIED_HASH == <<104, 49>>

\* Bodies: two artifacts and two texts, each without an inputs_hash and
\* with the supplied one; one more with another feedback_type and the
\* supplied hash, and one with an empty inputs_hash.
SuppliedBodies ==
    [source_artifact_id : {<<97>>, <<98>>}, feedback_type : {MIXED}, raw_feedback : {FINE, POOR},
     feedback_source : {HUMAN}, inputs_hash : {NULL, SUPPLIED_HASH}, timestamp : {NULL}]
    \cup [source_artifact_id : {<<98>>}, feedback_type : {QUALITATIVE}, raw_feedback : {POOR},
          feedback_source : {HUMAN}, inputs_hash : {SUPPLIED_HASH, <<>>}, timestamp : {NULL}]

NextSupplied ==
    \/ Capacity(1, SeqMax) /\ \E body \in SuppliedBodies : AssimilateArrive(body)
    \/ \E h \in handlers : AssimilateSelect(h)
    \/ \E h \in handlers : AssimilateInsert(h)

SpecSupplied == InitWrite /\ [][NextSupplied]_vars

\* The request answered by reply i supplied an inputs_hash of its own.
Supplies(i) ==
    /\ replies[i].endpoint = "assimilate"
    /\ replies[i].body.inputs_hash # NULL
    /\ replies[i].body.inputs_hash # <<>>

\* C32: a supplied inputs_hash replaces the computed one: of two
\* sequential POST /learning/assimilate requests with the same supplied
\* inputs_hash, whatever their source_artifact_id and raw_feedback, the
\* first stores the one event with that hash and the second is
\* answered 201 with the first event's id and with its own
\* source_artifact_id and feedback_type.
C32_SuppliedHashReplaces ==
    \A i, j \in 1..Len(replies) :
        (/\ i < j
         /\ Supplies(i) /\ Supplies(j)
         /\ replies[i].body.inputs_hash = replies[j].body.inputs_hash)
        => /\ replies[i].inputs_hash = replies[i].body.inputs_hash
           /\ replies[j].inputs_hash = replies[j].body.inputs_hash
           /\ Cardinality(EventsOf(replies[j].body.inputs_hash)) = 1
           /\ Is201(i) /\ Is201(j)
           /\ replies[j].response.id = replies[i].response.id
           /\ \E e \in EventsOf(replies[j].body.inputs_hash) : e.id = replies[j].response.id
           /\ replies[j].response.source_artifact_id = replies[j].body.source_artifact_id
           /\ replies[j].response.feedback_type = replies[j].body.feedback_type

\* Two requests with the supplied hash that differ in source_artifact_id,
\* raw_feedback and feedback_type: the second one was answered with the
\* first one's id and its own artifact and type.
C32_Witness ==
    \E i, j \in 1..Len(replies) :
        /\ i < j
        /\ Supplies(i) /\ Supplies(j)
        /\ replies[i].body.source_artifact_id = <<97>> /\ replies[j].body.source_artifact_id = <<98>>
        /\ replies[i].body.raw_feedback = FINE /\ replies[j].body.raw_feedback = POOR
        /\ replies[j].body.feedback_type = QUALITATIVE
        /\ replies[j].response.id = replies[i].response.id
        /\ replies[j].response.source_artifact_id = <<98>>
        /\ Cardinality(EventsOf(SUPPLIED_HASH)) = 1

(***************************************************************************)
(* SpecDefaults: POST /learning/learn, one request at a time, with fields  *)
(* omitted or sent with their default values.                              *)
(***************************************************************************)

\* A body without optional fields.
BareLearnBody ==
    [decision_id |-> NULL, approved |-> TRUE, confidence_adjustment |-> NoNumber,
     reviewer_role |-> NULL, review_scope |-> NULL, artifact_type |-> NULL, feedback |-> NULL,
     timestamp |-> NULL]

\* The bare body, the bodies that send one field with its default value
\* ('none', 0, 'unknown', 'general', 'unknown'), and one with feedback;
\* each without a timestamp and with the client's.
DefaultBodies ==
    {[b EXCEPT !.timestamp = t] :
        b \in {BareLearnBody,
               [BareLearnBody EXCEPT !.decision_id = NONE],
               [BareLearnBody EXCEPT !.confidence_adjustment = [given |-> TRUE, n |-> 0]],
               [BareLearnBody EXCEPT !.reviewer_role = UNKNOWN],
               [BareLearnBody EXCEPT !.review_scope = GENERAL],
               [BareLearnBody EXCEPT !.artifact_type = UNKNOWN],
               [BareLearnBody EXCEPT !.feedback = FINE]},
        t \in {NULL, CLIENT_TIME}}

NextDefaults ==
    \/ Capacity(1, ReqMax) /\ \E body \in DefaultBodies : LearnArrive(body)
    \/ \E h \in handlers : LearnLookup(h)
    \/ \E h \in handlers : LearnInsert(h)
    \/ Tick

SpecDefaults == InitWrite /\ [][NextDefaults]_vars

\* A body with its absent fields replaced by the defaults and without its
\* feedback; the timestamp is left as sent.
WithDefaults(body) ==
    [decision_id           |-> IF body.decision_id = NULL THEN NONE ELSE body.decision_id,
     approved              |-> body.approved,
     confidence_adjustment |-> IF body.confidence_adjustment.given THEN body.confidence_adjustment.n ELSE 0,
     reviewer_role         |-> IF body.reviewer_role = NULL THEN UNKNOWN ELSE body.reviewer_role,
     review_scope          |-> IF body.review_scope = NULL THEN GENERAL ELSE body.review_scope,
     artifact_type         |-> IF body.artifact_type = NULL THEN UNKNOWN ELSE body.artifact_type,
     timestamp             |-> body.timestamp]

\* Replies i and j answer two POST /learning/learn requests, i first, that
\* differ at most in feedback and in omitting a field or sending its default.
SameUpToDefaults(i, j) ==
    /\ i < j
    /\ replies[i].endpoint = "learn" /\ replies[j].endpoint = "learn"
    /\ WithDefaults(replies[i].body) = WithDefaults(replies[j].body)

\* C33: two POST /learning/learn requests that differ only in feedback, or
\* only in omitting a field versus sending its default ('none', 0,
\* 'unknown', 'general', 'unknown'), have the same inputs hash, and the
\* second one stores nothing.
C33_FingerprintOfDefaults ==
    \A i, j \in 1..Len(replies) :
        SameUpToDefaults(i, j)
        => /\ replies[i].inputs_hash = replies[j].inputs_hash
           /\ ~replies[j].stored

(***************************************************************************)
(* SpecTypes: GET /events/decisions with names in `types` that are not     *)
(* event types.                                                            *)
(***************************************************************************)

FOO_AND_CREATED == FOO \o COMMA \o PLAN_CREATED
APPROVED_FOO_REJECTED == PLAN_APPROVED \o COMMA \o FOO \o COMMA \o PLAN_REJECTED

\* Values of `types`: absent, empty, a valid name, an invalid name, a lone
\* comma, invalid names before and between valid ones.
InvalidTypesParams ==
    {NULL, <<>>, PLAN_CREATED, FOO, COMMA, FOO_AND_CREATED, APPROVED_FOO_REJECTED}

RequestTypes ==
    /\ resp = NoResponse
    /\ \E t \in InvalidTypesParams, a \in AfterParams, l \in RequestLimits :
          Handle([types |-> t, after |-> a, limit |-> l])
    /\ UNCHANGED <<poll, cursor, pages, calls>>
    /\ UNCHANGED <<writeVars, callVars>>

NextTypes == RequestTypes

SpecTypes == Init /\ [][NextTypes]_vars

\* The `types` value with the names that are not event types taken out;
\* absent when no name is left.
WithoutInvalidNames(types) ==
    CASE types = FOO \/ types = COMMA \/ types = <<>> -> NULL
      [] types = FOO_AND_CREATED -> PLAN_CREATED
      [] types = APPROVED_FOO_REJECTED -> PLAN_APPROVED \o COMMA \o PLAN_REJECTED
      [] OTHER -> types

\* The response the tables give to the request with its invalid names taken out.
ResponseWithoutInvalidNames ==
    LET q == [req EXCEPT !.types = WithoutInvalidNames(req.types)]
    IN  Response(q, StartEvents(q))

\* C34: a `types` parameter that names no valid event type gets the response
\* of the same request without `types`, and invalid names mixed with valid
\* ones are ignored: the response is that of the request naming the valid
\* ones only.
C34_InvalidTypesIgnored ==
    Answered => resp = ResponseWithoutInvalidNames

\* types=foo was answered with events of both tables.
C34_Witness ==
    /\ Answered
    /\ req.types = FOO
    /\ \E i, j \in 1..Len(resp.events) :
          resp.events[i].type = PLAN_CREATED /\ resp.events[j].type # PLAN_CREATED

(***************************************************************************)
(* validateRequiredHeaders on its own.                                     *)
(***************************************************************************)

APPLICATION_JSON == <<97, 112, 112, 108, 105, 99, 97, 116, 105, 111, 110, 47, 106, 115, 111, 110>>
JSON_WITH_CHARSET == APPLICATION_JSON \o <<59, 32, 99, 104, 97, 114, 115, 101, 116, 61, 117, 116, 102, 45, 56>>
JSON_CAPITALS == <<65, 80, 80, 76, 73, 67, 65, 84, 73, 79, 78, 47, 74, 83, 79, 78>>
TEXT_PLAIN == <<116, 101, 120, 116, 47, 112, 108, 97, 105, 110>>
CORRELATION_1 == <<99, 49>>
CORRELATION_2 == <<99, 50>>
CONTEXT_1 == <<101, 49>>
CONTEXT_2 == <<101, 50>>
GENERATED_ID == <<103, 49>>

\* req.headers: a header is NULL (undefined) when the request has none.
RequestHeaders ==
    [correlationId      : {NULL, <<>>, CORRELATION_1, CORRELATION_2},
     entitlementContext : {NULL, <<>>, CONTEXT_1, CONTEXT_2},
     contentType        : {NULL, APPLICATION_JSON, JSON_WITH_CHARSET, JSON_CAPITALS, TEXT_PLAIN}]

\* !header: undefined or the empty string.
Falsy(header) == header = NULL \/ header = <<>>

\* getOrCreateCorrelationId: the id of the request, or a new one.
GetOrCreateCorrelationId(headers) ==
    IF Falsy(headers.correlationId) THEN GENERATED_ID ELSE headers.correlationId

\* checkEntitlement: the results the entitlement check can give for a header.
CheckEntitlement(entitlementContext) == {[allowed |-> a] : a \in BOOLEAN}

\* typeof correlationId === 'string' ? correlationId : getOrCreateCorrelationId(req.headers)
ResponseCorrelationId(headers) ==
    IF headers.correlationId # NULL THEN headers.correlationId ELSE GetOrCreateCorrelationId(headers)

\* res.status(status).json({error, correlationId})
HeaderError(status, error, id) == [status |-> status, error |-> error, correlationId |-> id]

\* What a run of the middleware did: the responses sent, the calls of
\* next(), req.correlationId and req.entitlement (NULL when not set).
NoEffects == [sent |-> <<>>, nexts |-> 0, correlationId |-> NULL, entitlement |-> NULL]

\* ValidateRequiredHeaders without the `return` after the 403 response.
ValidateRequiredHeadersNoReturn(headers, result) ==
    IF headers.contentType = NULL \/ ~Includes(headers.contentType, APPLICATION_JSON)
    THEN [NoEffects EXCEPT !.sent = <<HeaderError(400, "validation_error", ResponseCorrelationId(headers))>>]
    ELSE IF Falsy(headers.correlationId) \/ Falsy(headers.entitlementContext)
    THEN [NoEffects EXCEPT !.sent = <<HeaderError(400, "missing_header", ResponseCorrelationId(headers))>>]
    ELSE [sent          |-> IF result.allowed THEN <<>>
                            ELSE <<HeaderError(403, "entitlement_error", headers.correlationId)>>,
          nexts         |-> 1,
          correlationId |-> headers.correlationId,
          entitlement   |-> result]

\* validateRequiredHeaders(req, res, next), given the result checkEntitlement
\* returns when it is called.
ValidateRequiredHeaders(headers, result) ==
    IF headers.contentType = NULL \/ ~Includes(headers.contentType, APPLICATION_JSON)
    THEN [NoEffects EXCEPT !.sent = <<HeaderError(400, "validation_error", ResponseCorrelationId(headers))>>]
    ELSE IF Falsy(headers.correlationId) \/ Falsy(headers.entitlementContext)
    THEN [NoEffects EXCEPT !.sent = <<HeaderError(400, "missing_header", ResponseCorrelationId(headers))>>]
    ELSE IF ~result.allowed
    THEN [NoEffects EXCEPT !.sent = <<HeaderError(403, "entitlement_error", headers.correlationId)>>,
                           !.correlationId = headers.correlationId]
    ELSE [NoEffects EXCEPT !.nexts = 1,
                           !.correlationId = headers.correlationId,
                           !.entitlement = result]

InitHeaders ==
    /\ NoTables
    /\ \E headers \in RequestHeaders :
       \E result \in CheckEntitlement(headers.entitlementContext) :
           call = [f |-> "validateRequiredHeaders",
                   args |-> [headers |-> headers, result |-> result],
                   done |-> FALSE]
    /\ ret = NoEffects

Validate ==
    /\ call.f = "validateRequiredHeaders" /\ ~call.done
    /\ ret' = ValidateRequiredHeaders(call.args.headers, call.args.result)
    /\ call' = [call EXCEPT !.done = TRUE]
    /\ UNCHANGED <<readVars, writeVars>>

NextHeaders == Validate

SpecHeaders == InitHeaders /\ [][NextHeaders]_vars

\* The request's content-type contains application/json.
IsJson == \E i \in 1..(Len(call.args.headers.contentType) - Len(APPLICATION_JSON) + 1) :
              SubSeq(call.args.headers.contentType, i, i + Len(APPLICATION_JSON) - 1) = APPLICATION_JSON

\* Both x-correlation-id and x-entitlement-context are present (not empty).
BothPresent ==
    /\ call.args.headers.correlationId \notin {NULL, <<>>}
    /\ call.args.headers.entitlementContext \notin {NULL, <<>>}

\* The status and error of the only response sent.
OnlyResponse(status, error) ==
    /\ Len(ret.sent) = 1
    /\ ret.sent[1].status = status /\ ret.sent[1].error = error
    /\ ret.nexts = 0

\* C35: validateRequiredHeaders calls next() only when content-type contains
\* application/json, both x-correlation-id and x-entitlement-context are
\* present and the entitlement check allows the request; otherwise it sends
\* exactly one response and does not call next(): 400 validation_error for
\* the content type (checked first), 400 missing_header, or 403
\* entitlement_error. No request gets both a response and a call of next().
C35_ResponseOrNext ==
    (call.f = "validateRequiredHeaders" /\ call.done)
    => /\ ret.nexts > 0 => (IsJson /\ BothPresent /\ call.args.result.allowed)
       /\ ~IsJson => OnlyResponse(400, "validation_error")
       /\ (IsJson /\ ~BothPresent) => OnlyResponse(400, "missing_header")
       /\ (IsJson /\ BothPresent /\ ~call.args.result.allowed) => OnlyResponse(403, "entitlement_error")
       /\ ~(Len(ret.sent) > 0 /\ ret.nexts > 0)

\* A request with application/json and both headers whose entitlement
\* check refuses it was answered with 403.
C35_Witness ==
    /\ call.f = "validateRequiredHeaders" /\ call.done
    /\ IsJson /\ BothPresent /\ ~call.args.result.allowed
    /\ Len(ret.sent) = 1 /\ ret.sent[1].status = 403

====
